---- MODULE Spec2Model ----
(***************************************************************************)
(* Model of the astro-genomic correlation repository: the statistical      *)
(* validator (statistical/validation.py), the meta-analysis                *)
(* (integration/comprehensive_analysis.py), the polygenic calculator       *)
(* (genetic/polygenic_calculator.py) and the dignity and pathway           *)
(* correlation methods (correlation/), the dignity calculator             *)
(* (astrological/dignity_calculator.py) and the analysis that combines     *)
(* them.  Each component has a specification of its own over the same      *)
(* variables: Spec, SpecBatch, SpecValidator and SpecPearson (validator),  *)
(* SpecMeta and SpecAnalysis (analysis), SpecPrs and SpecCalculator        *)
(* (polygenic calculator), SpecCorrelation and SpecDignity.                *)
(*                                                                         *)
(* Numbers.  Python floats are modelled as exact rationals <<n, d>> with   *)
(* d > 0 in lowest terms; d = 0 encodes the IEEE specials: <<0, 0>> is     *)
(* NaN, <<1, 0>> is +inf and <<-1, 0>> is -inf.  Every comparison with a   *)
(* NaN is false, as in Python.                                             *)
(***************************************************************************)
EXTENDS Integers, Sequences, FiniteSets, TLC

VARIABLES
    alpha,   \* StatisticalValidator.alpha
    pc,      \* "idle": the caller holds no result; "done": a call has ended
    call,    \* the call made last: its operation and arguments
    env,     \* what scipy and numpy.random answered during that call
    ret,     \* how that call ended: returned value or raised exception
    calculators  \* the traits registered since import on the class of
                 \* PolygenicCalculator and on each of its instances

vars == <<alpha, pc, call, env, ret, calculators>>

----------------------------------------------------------------------------
(* Bounds of the model. *)

\* longest x or y sequence handed to the validator
MaxLen == 5
\* largest n_bootstrap / n_permutations of a call (the default of 1000 in
\* the source is scaled down to this bound)
MaxResamples == 2
\* longest list of p-values handed to multiple_testing_correction
MaxPValues == 3
\* largest number of named pairs handed to comprehensive_validation
MaxPairs == 2

----------------------------------------------------------------------------
(* Rational arithmetic with NaN and infinities. *)

RECURSIVE Gcd(_, _)
Gcd(a, b) == IF b = 0 THEN a ELSE Gcd(b, a % b)

Abs(i) == IF i < 0 THEN -i ELSE i

Sign(i) == IF i < 0 THEN -1 ELSE IF i > 0 THEN 1 ELSE 0

\* The factors common to both operands are divided out before multiplying,
\* which keeps the intermediate integers small.

\* the rational n/d (d # 0) in lowest terms with a positive denominator
Rat(n, d) ==
    LET g == Gcd(Abs(n), Abs(d))
        s == IF d < 0 THEN -1 ELSE 1
    IN  <<(s * n) \div g, (s * d) \div g>>

NaN == <<0, 0>>
PosInf == <<1, 0>>
NegInf == <<-1, 0>>
Zero == <<0, 1>>
One == <<1, 1>>
MinusOne == <<-1, 1>>

IsNaN(a) == a = NaN
IsFinite(a) == a[2] # 0

\* a < b, false when either side is NaN
RLess(a, b) ==
    IF IsNaN(a) \/ IsNaN(b) THEN FALSE
    ELSE IF ~IsFinite(a) /\ ~IsFinite(b) THEN a[1] < b[1]
    ELSE IF ~IsFinite(a) THEN a[1] < 0
    ELSE IF ~IsFinite(b) THEN b[1] > 0
    ELSE LET g == Gcd(a[2], b[2])
         IN  a[1] * (b[2] \div g) < b[1] * (a[2] \div g)

\* a <= b, false when either side is NaN
RLeq(a, b) == ~IsNaN(a) /\ ~IsNaN(b) /\ ~RLess(b, a)

RNeg(a) == <<-a[1], a[2]>>

RAbs(a) == <<Abs(a[1]), a[2]>>

RAdd(a, b) ==
    IF IsNaN(a) \/ IsNaN(b) THEN NaN
    ELSE IF ~IsFinite(a) /\ ~IsFinite(b) THEN (IF a = b THEN a ELSE NaN)
    ELSE IF ~IsFinite(a) THEN a
    ELSE IF ~IsFinite(b) THEN b
    ELSE LET g == Gcd(a[2], b[2])
         IN  Rat(a[1] * (b[2] \div g) + b[1] * (a[2] \div g),
                 (a[2] \div g) * b[2])

RSub(a, b) == RAdd(a, RNeg(b))

RMul(a, b) ==
    IF IsNaN(a) \/ IsNaN(b) THEN NaN
    ELSE IF ~IsFinite(a) \/ ~IsFinite(b)
         THEN (IF a[1] = 0 \/ b[1] = 0 THEN NaN
               ELSE <<Sign(a[1]) * Sign(b[1]), 0>>)
    ELSE LET g == Gcd(Abs(a[1]), b[2])
             h == Gcd(Abs(b[1]), a[2])
         IN  Rat((a[1] \div g) * (b[1] \div h), (a[2] \div h) * (b[2] \div g))

\* a / b for a finite, non-zero b
RDiv(a, b) ==
    IF IsNaN(a) \/ IsNaN(b) THEN NaN
    ELSE IF ~IsFinite(a) THEN <<a[1] * Sign(b[1]), 0>>
    ELSE LET g == Gcd(Abs(a[1]), Abs(b[1]))
             h == Gcd(a[2], b[2])
         IN  Rat((a[1] \div g) * (b[2] \div h), (a[2] \div h) * (b[1] \div g))

\* Python's builtin min(a, b): b when b < a, else a (so min(NaN, b) is NaN)
PyMin(a, b) == IF RLess(b, a) THEN b ELSE a

----------------------------------------------------------------------------
(* Sequence helpers. *)

SeqOf(S, n) == UNION {[1..k -> S] : k \in 0..n}

Range(s) == {s[i] : i \in DOMAIN s}

\* the permutations of 1..n, as sequences
Perms(n) == {f \in [1..n -> 1..n] : \A i, j \in 1..n : f[i] = f[j] => i = j}

\* s with v inserted before the first element greater than v
RECURSIVE InsertAsc(_, _)
InsertAsc(s, v) ==
    IF s = <<>> THEN <<v>>
    ELSE IF RLess(v, Head(s)) THEN <<v>> \o s
    ELSE <<Head(s)>> \o InsertAsc(Tail(s), v)

\* list.sort() of a list of finite numbers
RECURSIVE SortAsc(_)
SortAsc(s) == IF s = <<>> THEN <<>> ELSE InsertAsc(SortAsc(Tail(s)), Head(s))

\* floor of the square root of a natural number
Isqrt(k) == CHOOSE r \in 0..k : r * r <= k /\ (r + 1) * (r + 1) > k

----------------------------------------------------------------------------
(* ValidationResult and the ways a call ends. *)

\* the dataclass; interpretation is kept without the numbers formatted into it
ValidationResult(test_name, statistic, p_value, ci_lower, ci_upper, interpretation, passed) ==
    [test_name           |-> test_name,
     statistic           |-> statistic,
     p_value             |-> p_value,
     confidence_interval |-> <<ci_lower, ci_upper>>,
     interpretation      |-> interpretation,
     passed              |-> passed]

\* placeholder where a call produced no ValidationResult
NoResult == ValidationResult("", NaN, NaN, NaN, NaN, "", FALSE)

\* the exceptions of the module, by the statement that raises them
InvalidCorrelationData == "ValueError: Invalid data for correlation analysis"
UnknownCorrelationMethod == "ValueError: Unknown correlation method"
InsufficientBootstrapData == "ValueError: Insufficient data for bootstrap validation"
InvalidPermutationData == "ValueError: Invalid data for permutation test"
UnknownCorrectionMethod == "ValueError: Unknown correction method"
\* scipy's own ValueError for x and y of different lengths
LibraryError == "ValueError: all the input array dimensions must match"
IndexError == "IndexError: list index out of range"

\* How a call ended.  result: the ValidationResult of validate_correlation,
\* bootstrap_validation or permutation_test; values: the list returned by
\* multiple_testing_correction; all_results: the mapping built by
\* comprehensive_validation, as a sequence of [name, results] in insertion
\* order; stage1: that mapping as it stood when the first loop ended; pool:
\* all_p_values; libcalls: the calls made into scipy.stats and numpy.random.
NotEnded ==
    [outcome     |-> "none",
     error       |-> "",
     result      |-> NoResult,
     values      |-> <<>>,
     all_results |-> <<>>,
     stage1      |-> <<>>,
     pool        |-> <<>>,
     libcalls    |-> 0]

\* return of a ValidationResult
Returned(result, libcalls) ==
    [NotEnded EXCEPT !.outcome = "returned", !.result = result,
                     !.libcalls = libcalls]

\* return of a list of numbers
ReturnedValues(values) ==
    [NotEnded EXCEPT !.outcome = "returned", !.values = values]

\* raise of `error`
Raised(error, libcalls) ==
    [NotEnded EXCEPT !.outcome = "raised", !.error = error,
                     !.libcalls = libcalls]

----------------------------------------------------------------------------
(* What scipy.stats and numpy.random answer.  Their code is outside the     *)
(* repository: an answer is an input of the call, drawn from these sets.    *)

\* (correlation, p-value) answers of stats.pearsonr / stats.spearmanr on the
\* caller's data; constant data gives (nan, nan)
LibAnswer(corr, p) == [corr |-> corr, p |-> p]

LibAnswers ==
    {LibAnswer(One, Zero),
     LibAnswer(MinusOne, Zero),
     LibAnswer(Rat(1, 2), Rat(1, 20)),
     LibAnswer(Rat(-1, 2), Rat(1, 2)),
     LibAnswer(Zero, One),
     LibAnswer(NaN, NaN)}

\* what stats.spearmanr does on one resample: raise, or answer a correlation
\* (nan for a resample that is constant)
Draw(raised, corr) == [raised |-> raised, corr |-> corr]

Draws ==
    {Draw(TRUE, NaN)} \cup
    {Draw(FALSE, c) : c \in {NaN, MinusOne, Zero, Rat(1, 2), One}}

\* the data of a call: the validator itself reads only the lengths of x and
\* y and hands the values to the library
Ramp(n) == [i \in 1..n |-> i]

Data == {Ramp(n) : n \in 0..MaxLen}

\* the values of alpha a validator is constructed with
DefaultAlpha == Rat(1, 20)

Alphas == {DefaultAlpha, Rat(1, 2)}

----------------------------------------------------------------------------
(* validate_correlation *)

\* The Fisher interval uses arctanh, tanh, sqrt and the normal quantile,
\* none of them rational.  Each is replaced by a rational function with the
\* same sign, monotonicity, special values and limits: arctanh(r) by
\* r / (1 - |r|) and tanh(z) by its inverse z / (1 + |z|); the square root
\* and the quantile are rounded.

\* np.arctanh: nan for nan, +-inf at +-1, nan outside [-1, 1]
ArcTanh(r) ==
    IF IsNaN(r) THEN NaN
    ELSE IF r = One THEN PosInf
    ELSE IF r = MinusOne THEN NegInf
    ELSE IF RLess(One, RAbs(r)) THEN NaN
    ELSE RDiv(r, RSub(One, RAbs(r)))

\* np.tanh: nan for nan, +-1 at +-inf
Tanh(z) ==
    IF IsNaN(z) THEN NaN
    ELSE IF z = PosInf THEN One
    ELSE IF z = NegInf THEN MinusOne
    ELSE RDiv(z, RAdd(One, RAbs(z)))

\* 1 / np.sqrt(m) for m >= 1, to one decimal of the root
InvSqrt(m) == Rat(10, Isqrt(100 * m))

\* stats.norm.ppf(1 - a/2), to two decimals
NormPpfUpper(a) ==
    IF a = Rat(1, 20) THEN Rat(49, 25)
    ELSE IF a = Rat(1, 2) THEN Rat(27, 40)
    ELSE IF a = One THEN Zero
    ELSE NaN

\* the precondition of validate_correlation: len(x) != len(y) or len(x) < 3
invalid_correlation_data(x, y) == Len(x) # Len(y) \/ Len(x) < 3

\* (variant: the else branch no longer raises)
any_correlation_method(method) == TRUE

\* the methods the if/elif chain of validate_correlation knows
known_correlation_method(method) == method \in {"pearson", "spearman"}

\* (variant: p_value <= alpha)
passes_or_equal(p_value, a) == RLeq(p_value, a)

\* the verdict of validate_correlation and permutation_test: p_value < alpha
passes(p_value, a) == RLess(p_value, a)

\* (variant: the Fisher interval from 3 observations on)
uses_fisher_from_three(n) == n >= 3

\* the Fisher interval is computed for n > 3 only
uses_fisher(n) == n > 3

validate_correlation(a, x, y, method, lib) ==
    IF invalid_correlation_data(x, y)
    THEN Raised(InvalidCorrelationData, 0)
    ELSE IF ~known_correlation_method(method)
    THEN Raised(UnknownCorrelationMethod, 0)
    ELSE
      LET corr == lib.corr
          p_value == lib.p
          test_name == IF method = "pearson" THEN "Pearson Correlation"
                       ELSE "Spearman Correlation"
          n == Len(x)
          z == ArcTanh(corr)
          se == InvSqrt(n - 3)
          z_crit == NormPpfUpper(a)
          ci_lower == IF uses_fisher(n) THEN Tanh(RSub(z, RMul(z_crit, se)))
                      ELSE MinusOne
          ci_upper == IF uses_fisher(n) THEN Tanh(RAdd(z, RMul(z_crit, se)))
                      ELSE One
          passed == passes(p_value, a)
          interpretation == IF passed THEN "Significant correlation detected"
                            ELSE "No significant correlation"
      IN  Returned(ValidationResult(test_name, corr, p_value, ci_lower, ci_upper,
                                    interpretation, passed), 1)

----------------------------------------------------------------------------
(* bootstrap_validation and permutation_test *)

\* stats.spearmanr(x, y) on the caller's data: raises for sequences of
\* different lengths, else answers lib
spearmanr_raises(x, y) == Len(x) # Len(y)

\* (variant: the np.isnan test is missing)
keeps_nan_corr(draw) == ~draw.raised

\* the body of the try block of a resampling loop appends the correlation:
\* spearmanr did not raise and "not np.isnan(corr)"
keeps_corr(draw) == ~draw.raised /\ ~IsNaN(draw.corr)

\* the list of correlations a resampling loop collects from the first k draws
RECURSIVE successful_corrs(_, _)
successful_corrs(draws, k) ==
    IF k = 0 THEN <<>>
    ELSE LET rest == successful_corrs(draws, k - 1)
         IN  IF keeps_corr(draws[k]) THEN Append(rest, draws[k].corr) ELSE rest

\* np.percentile(sorted, 100 * q), linear interpolation between the two
\* nearest ranks of a non-empty sorted list
Percentile(sorted, q) ==
    LET pos  == RMul(Rat(Len(sorted) - 1, 1), q)
        lo   == pos[1] \div pos[2]
        frac == RSub(pos, Rat(lo, 1))
        a    == sorted[lo + 1]
        b    == sorted[IF lo + 2 <= Len(sorted) THEN lo + 2 ELSE lo + 1]
    IN  RAdd(a, RMul(frac, RSub(b, a)))

\* the sum of the booleans instead of their mean
CountOfBooleans(true_at, len) == Rat(Cardinality(true_at), 1)

\* np.mean of a non-empty list of booleans, given the positions that hold True
MeanOfBooleans(true_at, len) == Rat(Cardinality(true_at), len)

\* the precondition of bootstrap_validation: n = len(x), n < 3
insufficient_bootstrap_data(x, y) == Len(x) < 3

\* the precondition of permutation_test: len(x) != len(y) or len(x) < 3
invalid_permutation_data(x, y) == Len(x) # Len(y) \/ Len(x) < 3

\* an interval that only touches zero counted as excluding it
touches_or_excludes_zero(ci_lower, ci_upper) == RLeq(Zero, RMul(ci_lower, ci_upper))

\* passed = ci_lower * ci_upper > 0
excludes_zero(ci_lower, ci_upper) == RLess(Zero, RMul(ci_lower, ci_upper))

bootstrap_validation(x, y, n_bootstrap, lib, draws) ==
    IF insufficient_bootstrap_data(x, y)
    THEN Raised(InsufficientBootstrapData, 0)
    ELSE IF spearmanr_raises(x, y)
    THEN Raised(LibraryError, 1)
    ELSE
      LET original_corr == lib.corr
          bootstrap_corrs == successful_corrs(draws, n_bootstrap)
          libcalls == 1 + 2 * n_bootstrap
      IN  IF Len(bootstrap_corrs) = 0
          THEN Returned(ValidationResult("Bootstrap Validation", original_corr,
                                         One, MinusOne, One,
                                         "Bootstrap validation failed", FALSE),
                        libcalls)
          ELSE
            LET sorted == SortAsc(bootstrap_corrs)
                ci_lower == Percentile(sorted, Rat(25, 1000))
                ci_upper == Percentile(sorted, Rat(975, 1000))
                near_zero == {i \in DOMAIN bootstrap_corrs :
                                 RLeq(RAbs(bootstrap_corrs[i]), RAbs(original_corr))}
                p_value == MeanOfBooleans(near_zero, Len(bootstrap_corrs))
                passed == excludes_zero(ci_lower, ci_upper)
            IN  Returned(ValidationResult("Bootstrap Validation", original_corr,
                                          p_value, ci_lower, ci_upper,
                                          "Bootstrap validation: successful resamples",
                                          passed),
                         libcalls)

permutation_test(a, x, y, n_permutations, lib, draws) ==
    IF invalid_permutation_data(x, y)
    THEN Raised(InvalidPermutationData, 0)
    ELSE
      LET original_corr == lib.corr
          perm_corrs == successful_corrs(draws, n_permutations)
          libcalls == 1 + 2 * n_permutations
      IN  IF Len(perm_corrs) = 0
          THEN Returned(ValidationResult("Permutation Test", original_corr,
                                         One, MinusOne, One,
                                         "Permutation test failed", FALSE),
                        libcalls)
          ELSE
            LET extreme == {i \in DOMAIN perm_corrs :
                               RLeq(RAbs(original_corr), RAbs(perm_corrs[i]))}
                p_value == MeanOfBooleans(extreme, Len(perm_corrs))
                sorted == SortAsc(perm_corrs)
                ci_lower == Percentile(sorted, Rat(25, 1000))
                ci_upper == Percentile(sorted, Rat(975, 1000))
                passed == passes(p_value, a)
            IN  Returned(ValidationResult("Permutation Test", original_corr,
                                          p_value, ci_lower, ci_upper,
                                          "Permutation test: permutations completed",
                                          passed),
                         libcalls)

----------------------------------------------------------------------------
(* multiple_testing_correction *)

\* np.argsort's order of two values: a sorts before b (nan sorts last)
SortsBefore(a, b) == ~IsNaN(a) /\ (IsNaN(b) \/ RLess(a, b))

\* the index orders np.argsort(p) may return: every permutation that lists
\* the values in ascending order; the order of equal values is not fixed
Argsorts(p) ==
    {o \in Perms(Len(p)) :
        \A i, j \in 1..Len(p) : i < j => ~SortsBefore(p[o[j]], p[o[i]])}

\* the index order o with index j inserted, after the values not larger
RECURSIVE InsertIndex(_, _, _)
InsertIndex(o, p, j) ==
    IF o = <<>> THEN <<j>>
    ELSE IF SortsBefore(p[j], p[Head(o)]) THEN <<j>> \o o
    ELSE <<Head(o)>> \o InsertIndex(Tail(o), p, j)

\* the order among Argsorts(p) that keeps equal values in index order, which
\* is what numpy's insertion sort of a short array returns
RECURSIVE StableArgsortUpTo(_, _)
StableArgsortUpTo(p, k) ==
    IF k = 0 THEN <<>> ELSE InsertIndex(StableArgsortUpTo(p, k - 1), p, k)

StableArgsort(p) == StableArgsortUpTo(p, Len(p))

\* (variant: the running minimum is missing)
fdr_uncapped(sorted_p, i) ==
    IF i = Len(sorted_p) THEN sorted_p[i]
    ELSE RDiv(RMul(sorted_p[i], Rat(Len(sorted_p), 1)), Rat(i, 1))

\* (variant: the loop starts from 1.0, not from the largest p-value)
RECURSIVE fdr_seeded_with_one(_, _)
fdr_seeded_with_one(sorted_p, i) ==
    IF i = Len(sorted_p) THEN One
    ELSE PyMin(fdr_seeded_with_one(sorted_p, i + 1),
               RDiv(RMul(sorted_p[i], Rat(Len(sorted_p), 1)), Rat(i, 1)))

\* corrected[i] of the Benjamini-Hochberg loop (ranks counted from 1)
RECURSIVE fdr_corrected(_, _)
fdr_corrected(sorted_p, i) ==
    LET n == Len(sorted_p) IN
    IF i = n THEN sorted_p[i]
    ELSE PyMin(fdr_corrected(sorted_p, i + 1),
               RDiv(RMul(sorted_p[i], Rat(n, 1)), Rat(i, 1)))

\* (variant: the original order is not restored)
fdr_sorted_order(p_values, order) ==
    LET sorted_p == [i \in 1..Len(p_values) |-> p_values[order[i]]]
    IN  [i \in 1..Len(p_values) |-> fdr_corrected(sorted_p, i)]

\* the 'fdr' branch, with sorted_indices = order
fdr(p_values, order) ==
    LET n == Len(p_values)
        sorted_p == [i \in 1..n |-> p_values[order[i]]]
        rank(j) == CHOOSE i \in 1..n : order[i] = j
    IN  [j \in 1..n |-> fdr_corrected(sorted_p, rank(j))]

\* (variant: the product is capped at 1.0)
bonferroni_capped(p_values) ==
    [j \in 1..Len(p_values) |->
        PyMin(One, RMul(p_values[j], Rat(Len(p_values), 1)))]

\* the 'bonferroni' branch
bonferroni(p_values) ==
    [j \in 1..Len(p_values) |-> RMul(p_values[j], Rat(Len(p_values), 1))]

multiple_testing_correction(p_values, method, order) ==
    IF method = "bonferroni"
    THEN ReturnedValues(bonferroni(p_values))
    ELSE IF method = "fdr"
    THEN ReturnedValues(fdr(p_values, order))
    ELSE Raised(UnknownCorrectionMethod, 0)

----------------------------------------------------------------------------
(* comprehensive_validation *)

\* (variant: the threshold is 4)
runs_resampling_from_4(x) == Len(x) >= 4

\* the tests that run only on longer samples: len(x) >= 5
runs_resampling(x) == Len(x) >= 5

\* the ValidationResult recorded for a pair whose validation raised
error_result ==
    ValidationResult("Validation Error", Zero, One, MinusOne, One,
                     "Validation failed", FALSE)

\* the calls of the try block for one pair, in call order, each with how it
\* would end.  libs holds the answers of pearsonr and of spearmanr on the
\* pair's data, draws the answers on the resamples; both resampling tests
\* run with their default count.
attempted_tests(a, x, y, libs, draws) ==
    <<validate_correlation(a, x, y, "pearson", libs.pearson),
      validate_correlation(a, x, y, "spearman", libs.spearman)>>
    \o (IF runs_resampling(x)
        THEN <<bootstrap_validation(x, y, Len(draws), libs.spearman, draws),
               permutation_test(a, x, y, Len(draws), libs.spearman, draws)>>
        ELSE <<>>)

\* the position of the first call that raises, 0 when none does
first_raise(outs) ==
    IF \A i \in DOMAIN outs : outs[i].outcome # "raised" THEN 0
    ELSE CHOOSE i \in DOMAIN outs :
           /\ outs[i].outcome = "raised"
           /\ \A j \in 1..(i - 1) : outs[j].outcome # "raised"

\* the library calls made by the first k calls
RECURSIVE libcalls_of(_, _)
libcalls_of(outs, k) ==
    IF k = 0 THEN 0 ELSE libcalls_of(outs, k - 1) + outs[k].libcalls

\* the try block: the calls run in order until one raises.
\* [raised, results, libcalls]
try_block(outs) ==
    IF first_raise(outs) # 0
    THEN [raised   |-> TRUE,
          results  |-> <<>>,
          libcalls |-> libcalls_of(outs, first_raise(outs))]
    ELSE [raised   |-> FALSE,
          results  |-> [i \in DOMAIN outs |-> outs[i].result],
          libcalls |-> libcalls_of(outs, Len(outs))]

run_tests(a, x, y, libs, draws) == try_block(attempted_tests(a, x, y, libs, draws))

\* one pass of the first loop: the pair's results, or its error result, are
\* stored under its name, and only a pair that did not raise adds p-values
record_pair(before, name, tests) ==
    IF tests.raised
    THEN [all_results  |-> Append(before.all_results,
                                  [name |-> name, results |-> <<error_result>>]),
          all_p_values |-> before.all_p_values,
          libcalls     |-> before.libcalls + tests.libcalls]
    ELSE [all_results  |-> Append(before.all_results,
                                  [name |-> name, results |-> tests.results]),
          all_p_values |-> before.all_p_values \o
                           [i \in 1..Len(tests.results) |-> tests.results[i].p_value],
          libcalls     |-> before.libcalls + tests.libcalls]

\* the first loop over the first k pairs: [all_results, all_p_values, libcalls]
RECURSIVE run_all_tests(_, _, _, _, _)
run_all_tests(a, correlations, k, libs, draws) ==
    IF k = 0
    THEN [all_results |-> <<>>, all_p_values |-> <<>>, libcalls |-> 0]
    ELSE record_pair(run_all_tests(a, correlations, k - 1, libs, draws),
                     correlations[k].name,
                     run_tests(a, correlations[k].x, correlations[k].y, libs, draws))

\* the ValidationResult appended for `result` with corrected p-value p
corrected_result(a, result, p) ==
    ValidationResult(result.test_name \o " (FDR corrected)", result.statistic, p,
                     result.confidence_interval[1], result.confidence_interval[2],
                     result.interpretation \o " [FDR corrected]", RLess(p, a))

\* the inner loop "for result in results" from position i on.  The loop
\* walks the very list it appends to, so it also visits what it appended.
\* idx counts from 0 as in the source.  [raised, results, idx]
RECURSIVE correct_results(_, _, _, _, _)
correct_results(a, results, i, corrected_p, idx) ==
    IF i > Len(results)
    THEN [raised |-> FALSE, results |-> results, idx |-> idx]
    ELSE IF results[i].test_name # "Validation Error"
    THEN IF idx >= Len(corrected_p)
         THEN [raised |-> TRUE, results |-> results, idx |-> idx]
         ELSE correct_results(a,
                  Append(results, corrected_result(a, results[i], corrected_p[idx + 1])),
                  i + 1, corrected_p, idx + 1)
    ELSE correct_results(a, results, i + 1, corrected_p, idx)

\* pair k with its list as the inner loop left it
with_results(all_results, k, r) == [all_results EXCEPT ![k].results = r.results]

\* the rest of the outer loop once the inner loop has ended as r on pair k
RECURSIVE correct_all(_, _, _, _, _)
after_pair(a, all_results, k, corrected_p, r) ==
    IF r.raised
    THEN [raised |-> TRUE, all_results |-> with_results(all_results, k, r)]
    ELSE correct_all(a, with_results(all_results, k, r), k + 1, corrected_p, r.idx)

\* the outer loop "for name, results in all_results.items()" from pair k on
correct_all(a, all_results, k, corrected_p, idx) ==
    IF k > Len(all_results)
    THEN [raised |-> FALSE, all_results |-> all_results]
    ELSE after_pair(a, all_results, k, corrected_p,
                    correct_results(a, all_results[k].results, 1, corrected_p, idx))

\* how the call ends once the second loop has ended as second
end_of_call(first, second) ==
    [NotEnded EXCEPT !.outcome = IF second.raised THEN "raised" ELSE "returned",
                     !.error = IF second.raised THEN IndexError ELSE "",
                     !.all_results = second.all_results,
                     !.stage1 = first.all_results,
                     !.pool = first.all_p_values,
                     !.libcalls = first.libcalls]

\* the multiple testing correction, after the first loop has ended as first
apply_correction(a, first) ==
    IF Len(first.all_p_values) > 1
    THEN end_of_call(first,
             correct_all(a, first.all_results, 1,
                         fdr(first.all_p_values, StableArgsort(first.all_p_values)), 0))
    ELSE end_of_call(first, [raised |-> FALSE, all_results |-> first.all_results])

comprehensive_validation(a, correlations, libs, draws) ==
    apply_correction(a, run_all_tests(a, correlations, Len(correlations), libs, draws))

----------------------------------------------------------------------------
(* The validator as a state machine: a caller makes one call at a time and   *)
(* drops the result before the next call.                                    *)

NoCall ==
    [op           |-> "none",
     x            |-> <<>>,
     y            |-> <<>>,
     method       |-> "",
     n            |-> 0,
     p_values     |-> <<>>,
     correlations |-> <<>>]

\* pearson, spearman: the answers of stats.pearsonr / stats.spearmanr on the
\* caller's data; draws: the answers of stats.spearmanr on the resamples, in
\* order; order: the answer of np.argsort; after: the caller's argument
\* objects as the call leaves them, in the shape of NoCall
NoEnv ==
    [pearson  |-> LibAnswer(NaN, NaN),
     spearman |-> LibAnswer(NaN, NaN),
     draws    |-> <<>>,
     order    |-> <<>>,
     after    |-> NoCall]

\* the environment of a finished call: the library's answers and the
\* caller's objects
observed(answers, objects) == [answers EXCEPT !.after = objects]

\* (variant: np.random.shuffle(y) reorders the caller's y in place)
after_shuffle_in_place(c) ==
    [c EXCEPT !.y = [i \in 1..Len(c.y) |-> c.y[Len(c.y) + 1 - i]]]

\* y_perm = np.random.permutation(y) is a shuffled copy: the caller's
\* objects stay as passed
after_permutation(c) == c

\* correlation and correction methods a caller passes
CorrelationMethods == {"pearson", "spearman", "kendall"}
CorrectionMethods == {"bonferroni", "fdr", "holm"}

\* p-values a caller passes to multiple_testing_correction
PValues == {Zero, Rat(1, 20), Rat(1, 4), Rat(1, 2), One}

\* most PolygenicCalculator instances alive at once
MaxCalculators == 2

\* a dict of registered traits without entries
NoTraits == [t \in {} |-> <<>>]

\* __init__ of the validator and of the calculators: a new calculator has
\* copies of the class-level tables and nothing registered on top of them
Init ==
    /\ alpha \in Alphas
    /\ pc = "idle"
    /\ call = NoCall
    /\ env = NoEnv
    /\ ret = NotEnded
    /\ calculators = [class     |-> NoTraits,
                      instances |-> [i \in 1..MaxCalculators |-> NoTraits]]

ValidateCorrelation ==
    /\ pc = "idle"
    /\ \E x \in Data, y \in Data, method \in CorrelationMethods, lib \in LibAnswers :
         /\ call' = [NoCall EXCEPT !.op = "validate_correlation", !.x = x,
                                   !.y = y, !.method = method]
         /\ ret' = validate_correlation(alpha, x, y, method, lib)
         /\ env' = observed(IF ret'.libcalls = 0 THEN NoEnv
                            ELSE IF method = "pearson" THEN [NoEnv EXCEPT !.pearson = lib]
                            ELSE [NoEnv EXCEPT !.spearman = lib],
                           call')
    /\ pc' = "done"
    /\ UNCHANGED <<alpha, calculators>>

BootstrapValidation ==
    /\ pc = "idle"
    /\ \E x \in Data, y \in Data, n_bootstrap \in 0..MaxResamples, lib \in LibAnswers :
         \E draws \in [1..n_bootstrap -> Draws] :
           /\ call' = [NoCall EXCEPT !.op = "bootstrap_validation", !.x = x,
                                     !.y = y, !.n = n_bootstrap]
           /\ ret' = bootstrap_validation(x, y, n_bootstrap, lib, draws)
           /\ env' = observed(IF ret'.libcalls = 0 THEN NoEnv
                              ELSE IF ret'.libcalls = 1 THEN [NoEnv EXCEPT !.spearman = lib]
                              ELSE [NoEnv EXCEPT !.spearman = lib, !.draws = draws],
                             call')
    /\ pc' = "done"
    /\ UNCHANGED <<alpha, calculators>>

PermutationTest ==
    /\ pc = "idle"
    /\ \E x \in Data, y \in Data, n_permutations \in 0..MaxResamples, lib \in LibAnswers :
         \E draws \in [1..n_permutations -> Draws] :
           /\ call' = [NoCall EXCEPT !.op = "permutation_test", !.x = x,
                                     !.y = y, !.n = n_permutations]
           /\ ret' = permutation_test(alpha, x, y, n_permutations, lib, draws)
           /\ env' = observed(IF ret'.libcalls = 0 THEN NoEnv
                              ELSE [NoEnv EXCEPT !.spearman = lib, !.draws = draws],
                             after_permutation(call'))
    /\ pc' = "done"
    /\ UNCHANGED <<alpha, calculators>>

MultipleTestingCorrection ==
    /\ pc = "idle"
    /\ \E p_values \in SeqOf(PValues, MaxPValues), method \in CorrectionMethods :
         \E order \in Argsorts(p_values) :
           /\ call' = [NoCall EXCEPT !.op = "multiple_testing_correction",
                                     !.p_values = p_values, !.method = method]
           /\ env' = observed(IF method = "fdr" THEN [NoEnv EXCEPT !.order = order]
                              ELSE NoEnv,
                             call')
           /\ ret' = multiple_testing_correction(p_values, method, order)
    /\ pc' = "done"
    /\ UNCHANGED <<alpha, calculators>>

\* the caller is done with the result
Return ==
    /\ pc = "done"
    /\ pc' = "idle"
    /\ call' = NoCall
    /\ env' = NoEnv
    /\ ret' = NotEnded
    /\ UNCHANGED <<alpha, calculators>>

Next ==
    \/ ValidateCorrelation
    \/ BootstrapValidation
    \/ PermutationTest
    \/ MultipleTestingCorrection
    \/ Return

Spec == Init /\ [][Next]_vars

----------------------------------------------------------------------------
(* The batch call, as a state machine of its own.                            *)

\* keys of the mapping handed to comprehensive_validation, in insertion order
PairNames ==
    <<"strong_positive", "moderate_negative", "weak_correlation", "fourth", "fifth">>

\* the (x, y) values of the mapping: y as long as x, or one shorter
PairData == {<<x, y>> \in Data \X Data : Len(y) = Len(x) \/ Len(y) + 1 = Len(x)}

\* the library's answers during a batch: one answer of pearsonr and one of
\* spearmanr for every pair, and one answer for every resample
BatchAnswers == {LibAnswer(One, Zero), LibAnswer(Rat(1, 2), Rat(1, 20)), LibAnswer(NaN, NaN)}

BatchDraws == {Draw(FALSE, NaN), Draw(FALSE, Rat(1, 2)), Draw(FALSE, One)}

ComprehensiveValidation ==
    /\ pc = "idle"
    /\ \E k \in 0..MaxPairs :
         \E data \in [1..k -> PairData] :
           \E pearson \in BatchAnswers, spearman \in BatchAnswers, draw \in BatchDraws :
             LET correlations == [i \in 1..k |-> [name |-> PairNames[i],
                                                  x |-> data[i][1],
                                                  y |-> data[i][2]]]
                 draws == [i \in 1..MaxResamples |-> draw]
                 libs == [pearson |-> pearson, spearman |-> spearman]
             IN  /\ call' = [NoCall EXCEPT !.op = "comprehensive_validation",
                                           !.correlations = correlations]
                 /\ ret' = comprehensive_validation(alpha, correlations, libs, draws)
                 /\ env' = observed(IF ret'.libcalls = 0 THEN NoEnv
                                    ELSE IF \A i \in 1..k : Len(ret'.stage1[i].results) <= 2
                                    THEN [NoEnv EXCEPT !.pearson = pearson,
                                                       !.spearman = spearman]
                                    ELSE [NoEnv EXCEPT !.pearson = pearson,
                                                       !.spearman = spearman,
                                                       !.draws = draws],
                                   call')
    /\ pc' = "done"
    /\ UNCHANGED <<alpha, calculators>>

NextBatch ==
    \/ ComprehensiveValidation
    \/ Return

SpecBatch == Init /\ [][NextBatch]_vars

----------------------------------------------------------------------------
(* Properties of comprehensive_validation, checked under SpecBatch. *)

IsBatch == call.op = "comprehensive_validation"

\* pair i of the batch raises in validation: validate_correlation rejects it
PairRaises(i) ==
    Len(call.correlations[i].x) # Len(call.correlations[i].y)
    \/ Len(call.correlations[i].x) < 3

\* the test names of a list of results
TestNames(results) == [j \in 1..Len(results) |-> results[j].test_name]

\* the Benjamini-Hochberg adjusted value of p[j]: the least p[k] * n / r(k)
\* over the k with p[k] >= p[j], r(k) being the number of values <= p[k]
BHValue(p, j) ==
    LET n == Len(p)
        r(k) == Cardinality({m \in 1..n : RLeq(p[m], p[k])})
        cands == {RDiv(RMul(p[k], Rat(n, 1)), Rat(r(k), 1)) :
                     k \in {k \in 1..n : RLeq(p[j], p[k])}}
    IN  CHOOSE v \in cands : \A w \in cands : RLeq(v, w)

\* the number of p-values pooled by the pairs before pair i
RECURSIVE PoolOffset(_)
PoolOffset(i) ==
    IF i = 1 THEN 0
    ELSE PoolOffset(i - 1)
         + (IF PairRaises(i - 1) THEN 0 ELSE Len(ret.stage1[i - 1].results))

\* C1: comprehensive_validation returns, for any mapping, a mapping with
\* exactly the input names; a pair whose validation raises holds exactly the
\* one 'Validation Error' result, the other pairs are processed, and no
\* exception escapes the call.
C1_BatchIsolatesFailures ==
    IsBatch =>
      /\ ret.outcome = "returned"
      /\ Len(ret.all_results) = Len(call.correlations)
      /\ \A i \in 1..Len(call.correlations) :
           /\ ret.all_results[i].name = call.correlations[i].name
           /\ PairRaises(i) =>
                ret.all_results[i].results =
                  <<ValidationResult("Validation Error", Zero, One, MinusOne, One,
                                     "Validation failed", FALSE)>>
           /\ ~PairRaises(i) =>
                /\ Len(ret.all_results[i].results) >= 2
                /\ "Validation Error" \notin Range(TestNames(ret.all_results[i].results))

\* C2: after comprehensive_validation a pair validated with k original
\* results holds exactly 2k results: the k originals unchanged, then one
\* '(FDR corrected)' copy per original with its statistic and interval and
\* the corrected p-value; no original is replaced and no copy is corrected
\* again.
C2_OneCorrectedCopyPerTest ==
    IsBatch =>
      /\ ret.outcome = "returned"
      /\ \A i \in 1..Len(call.correlations) :
           ~PairRaises(i) =>
             LET orig == ret.stage1[i].results
                 k    == Len(orig)
                 now  == ret.all_results[i].results
             IN  /\ Len(now) = 2 * k
                 /\ \A j \in 1..k :
                      /\ now[j] = orig[j]
                      /\ now[k + j].test_name = orig[j].test_name \o " (FDR corrected)"
                      /\ now[k + j].statistic = orig[j].statistic
                      /\ now[k + j].confidence_interval = orig[j].confidence_interval
                      /\ now[k + j].p_value = BHValue(ret.pool, PoolOffset(i) + j)

\* C3: for every valid pair the tests run in the first loop are Pearson then
\* Spearman when 3 <= len(x) < 5, and Pearson, Spearman, Bootstrap,
\* Permutation when len(x) >= 5; Bootstrap and Permutation never run below 5.
C3_TestsRunInOrder ==
    IsBatch =>
      \A i \in 1..Len(call.correlations) :
        ~PairRaises(i) =>
          TestNames(ret.stage1[i].results) =
            IF Len(call.correlations[i].x) < 5
            THEN <<"Pearson Correlation", "Spearman Correlation">>
            ELSE <<"Pearson Correlation", "Spearman Correlation",
                   "Bootstrap Validation", "Permutation Test">>

\* a batch with a valid pair of 5 observations (four tests) and a valid pair
\* of fewer than 5 (two tests)
C3_Witness ==
    /\ IsBatch
    /\ \E i, j \in 1..Len(call.correlations) :
         /\ ~PairRaises(i) /\ Len(call.correlations[i].x) = 5
         /\ Len(ret.stage1[i].results) = 4
         /\ ~PairRaises(j) /\ Len(call.correlations[j].x) < 5
         /\ Len(ret.stage1[j].results) = 2

----------------------------------------------------------------------------
(* Properties of the single calls, checked under Spec. *)

IsCorrection(method) ==
    call.op = "multiple_testing_correction" /\ call.method = method

\* C4: multiple_testing_correction(p_values, 'fdr') returns a list as long
\* as its input whose position j holds the Benjamini-Hochberg value of p_j
\* (the running minimum of p * n / rank from the largest rank down), in the
\* original order.
C4_FdrIsBenjaminiHochberg ==
    IsCorrection("fdr") =>
      /\ ret.outcome = "returned"
      /\ Len(ret.values) = Len(call.p_values)
      /\ \A j \in 1..Len(call.p_values) : ret.values[j] = BHValue(call.p_values, j)

\* an unsorted input on which the running minimum decides: [0.5, 0.05, 0.5]
\* is corrected to [0.5, 0.15, 0.5]
C4_Witness ==
    /\ IsCorrection("fdr")
    /\ call.p_values = <<Rat(1, 2), Rat(1, 20), Rat(1, 2)>>
    /\ ret.values = <<Rat(1, 2), Rat(3, 20), Rat(1, 2)>>

\* C5: for non-negative p-values the FDR-corrected values are non-decreasing
\* in ascending order of the original p-values, and each corrected value is
\* at least its original p-value.
C5_FdrMonotoneAndNotBelowOriginal ==
    IsCorrection("fdr") =>
      \A j \in 1..Len(call.p_values) :
        /\ RLeq(call.p_values[j], ret.values[j])
        /\ \A k \in 1..Len(call.p_values) :
             RLeq(call.p_values[j], call.p_values[k])
               => RLeq(ret.values[j], ret.values[k])

\* an unsorted input of three distinct p-values, each raised by the
\* correction, whose corrected values are not all equal
C5_Witness ==
    /\ IsCorrection("fdr")
    /\ Len(call.p_values) = 3
    /\ RLess(call.p_values[2], call.p_values[3])
    /\ RLess(call.p_values[3], call.p_values[1])
    /\ \A j \in 2..3 : RLess(call.p_values[j], ret.values[j])
    /\ \E j, k \in 1..3 : RLess(ret.values[j], ret.values[k])

\* C6: multiple_testing_correction(p_values, 'bonferroni') returns, in the
\* original order, each p-value times the number n of p-values, uncapped: a
\* product above 1 is returned as a value above 1.0.
C6_BonferroniUncapped ==
    IsCorrection("bonferroni") =>
      /\ ret.outcome = "returned"
      /\ Len(ret.values) = Len(call.p_values)
      /\ \A j \in 1..Len(call.p_values) :
           LET p == call.p_values[j]
               v == ret.values[j]
               n == Len(call.p_values)
           IN  /\ v[1] * p[2] = p[1] * n * v[2]
               /\ p[1] * n > p[2] => RLess(One, v)

\* a Bonferroni call that returns a value above 1.0
C6_Witness ==
    /\ IsCorrection("bonferroni")
    /\ ret.outcome = "returned"
    /\ \E j \in 1..Len(ret.values) : RLess(One, ret.values[j])

\* the caller's data passes the length checks
ValidData == Len(call.x) = Len(call.y) /\ Len(call.x) >= 3

\* C7: validate_correlation with a method other than 'pearson' or 'spearman'
\* on valid data, and multiple_testing_correction with a method other than
\* 'bonferroni' or 'fdr', raise the invalid-argument error and return nothing.
C7_UnknownMethodRaises ==
    /\ (call.op = "validate_correlation" /\ ValidData
        /\ call.method \notin {"pearson", "spearman"})
         => /\ ret.outcome = "raised"
            /\ ret.error = "ValueError: Unknown correlation method"
            /\ ret.result = NoResult
    /\ (call.op = "multiple_testing_correction"
        /\ call.method \notin {"bonferroni", "fdr"})
         => /\ ret.outcome = "raised"
            /\ ret.error = "ValueError: Unknown correction method"
            /\ ret.values = <<>>

\* validate_correlation called with 'kendall' on three paired observations
C7_Witness ==
    /\ call.op = "validate_correlation"
    /\ call.method = "kendall"
    /\ Len(call.x) = 3 /\ Len(call.y) = 3
    /\ ret.outcome = "raised"

\* C8: validate_correlation, bootstrap_validation and permutation_test each
\* reject, by their own precondition check and before any correlation or
\* resampling is computed, every pair with len(x) != len(y) or len(x) < 3,
\* raising the validator's own error and returning nothing.
C8_PreconditionsRejectBadPairs ==
    (call.op \in {"validate_correlation", "bootstrap_validation", "permutation_test"}
     /\ ~ValidData)
      => /\ ret.outcome = "raised"
         /\ ret.error \in {"ValueError: Invalid data for correlation analysis",
                           "ValueError: Insufficient data for bootstrap validation",
                           "ValueError: Invalid data for permutation test"}
         /\ ret.libcalls = 0
         /\ ret.result = NoResult

\* the resamples of the call that gave a finite correlation
FiniteDraws ==
    {k \in 1..call.n : ~env.draws[k].raised /\ ~IsNaN(env.draws[k].corr)}

\* C9: the result of validate_correlation, and of permutation_test when a
\* permutation succeeded, has passed = true exactly when its p_value is
\* strictly below alpha; a p_value equal to alpha does not pass.
C9_PassedIffBelowAlpha ==
    ((call.op = "validate_correlation" /\ ret.outcome = "returned")
     \/ (call.op = "permutation_test" /\ ret.outcome = "returned"
         /\ FiniteDraws # {}))
      => /\ ret.result.passed <=> RLess(ret.result.p_value, alpha)
         /\ ret.result.p_value = alpha => ~ret.result.passed

\* a permutation test whose p-value equals alpha, and fails
C9_Witness ==
    /\ call.op = "permutation_test"
    /\ ret.outcome = "returned"
    /\ FiniteDraws # {}
    /\ ret.result.p_value = alpha
    /\ ~ret.result.passed

\* C10: when no resample gives a finite correlation (also with a count of
\* 0), bootstrap_validation and permutation_test return the fixed failure
\* result (p_value 1.0, interval (-1.0, 1.0), passed false); a resample with
\* a non-finite correlation is dropped without raising and counts neither in
\* the p-value nor in the interval.
C10_FailedResamplesDropped ==
    (call.op \in {"bootstrap_validation", "permutation_test"} /\ ValidData)
      => /\ ret.outcome = "returned"
         /\ LET res  == ret.result
                orig == env.spearman.corr
                Hit(k) == IF call.op = "bootstrap_validation"
                          THEN RLeq(RAbs(env.draws[k].corr), RAbs(orig))
                          ELSE RLeq(RAbs(orig), RAbs(env.draws[k].corr))
            IN  IF FiniteDraws = {}
                THEN /\ res.p_value = One
                     /\ res.confidence_interval = <<MinusOne, One>>
                     /\ ~res.passed
                ELSE /\ res.p_value[1] * Cardinality(FiniteDraws)
                          = Cardinality({k \in FiniteDraws : Hit(k)}) * res.p_value[2]
                     /\ \A b \in {1, 2} :
                          /\ \E k \in FiniteDraws :
                               RLeq(env.draws[k].corr, res.confidence_interval[b])
                          /\ \E k \in FiniteDraws :
                               RLeq(res.confidence_interval[b], env.draws[k].corr)

\* a bootstrap of two resamples, one nan and one raising, that returns the
\* failure result
C10_Witness ==
    /\ call.op = "bootstrap_validation"
    /\ call.n = 2
    /\ env.draws = <<Draw(FALSE, NaN), Draw(TRUE, NaN)>>
    /\ ret.outcome = "returned"
    /\ ret.result.p_value = One
    /\ ret.result.confidence_interval = <<MinusOne, One>>

\* C11: a bootstrap_validation result with at least one successful resample
\* has passed = true exactly when both bounds of its confidence interval are
\* non-zero and of the same sign, whatever its p_value and the validator's
\* alpha are.
C11_BootstrapPassedIffIntervalExcludesZero ==
    (call.op = "bootstrap_validation" /\ ret.outcome = "returned"
     /\ FiniteDraws # {})
      => LET lo == ret.result.confidence_interval[1]
             hi == ret.result.confidence_interval[2]
         IN  ret.result.passed
               <=> /\ Sign(lo[1]) # 0
                   /\ Sign(lo[1]) = Sign(hi[1])
                   /\ lo[2] > 0
                   /\ hi[2] > 0

\* a bootstrap that passes although its p_value is 1.0, not below alpha
C11_Witness ==
    /\ call.op = "bootstrap_validation"
    /\ ret.outcome = "returned"
    /\ FiniteDraws # {}
    /\ ret.result.passed
    /\ ret.result.p_value = One
    /\ ~RLess(ret.result.p_value, alpha)
    /\ ret.result.confidence_interval[1] # ret.result.confidence_interval[2]

\* C12: the p_value of bootstrap_validation and of permutation_test lies in
\* [0, 1]: with successful resamples it is the number of them whose absolute
\* correlation is <= (bootstrap) or >= (permutation) the absolute original
\* correlation, divided by the number of successful resamples; with none it
\* is 1.0.
C12_ResamplingPValueIsFraction ==
    (call.op \in {"bootstrap_validation", "permutation_test"}
     /\ ret.outcome = "returned")
      => LET p    == ret.result.p_value
             orig == env.spearman.corr
             hits == IF call.op = "bootstrap_validation"
                     THEN {k \in FiniteDraws :
                             RLeq(RAbs(env.draws[k].corr), RAbs(orig))}
                     ELSE {k \in FiniteDraws :
                             RLeq(RAbs(orig), RAbs(env.draws[k].corr))}
         IN  /\ RLeq(Zero, p) /\ RLeq(p, One)
             /\ FiniteDraws = {} => p = One
             /\ FiniteDraws # {}
                  => p = Rat(Cardinality(hits), Cardinality(FiniteDraws))

\* a call with two successful resamples of which only one counts: the p_value
\* is 1/2
C12_Witness ==
    /\ call.op \in {"bootstrap_validation", "permutation_test"}
    /\ ret.outcome = "returned"
    /\ Cardinality(FiniteDraws) = 2
    /\ ret.result.p_value = Rat(1, 2)

----------------------------------------------------------------------------
(* ComprehensiveAnalyzer._meta_analyze_results and _extract_top_correlations *)

\* most findings one method reports
MaxFindings == 2

\* keys of methodology_results, in the order comprehensive_astro_genetic_analysis
\* inserts them
MethodNames == <<"dignity", "pathway", "polygenic">>

\* 'method_weight' of each method
MethodWeight == [dignity |-> Rat(40, 100), pathway |-> Rat(35, 100),
                 polygenic |-> Rat(25, 100)]

\* the 'type' tag _extract_top_correlations gives the findings of a method
FindingType == [dignity |-> "planet-genetic", pathway |-> "planet-pathway",
                polygenic |-> "trait-planet"]

\* one value of methodology_results: keys holds which of 'confidence_level'
\* and 'confidence' the dict has; findings is the list under
\* 'significant_correlations' (dignity), 'strongest_correlations' (pathway) or
\* the values of 'trait_correlations' (polygenic)
MethodResult(correlation, method_weight, keys, confidence_level, confidence, findings) ==
    [correlation      |-> correlation,
     method_weight    |-> method_weight,
     keys             |-> keys,
     confidence_level |-> confidence_level,
     confidence       |-> confidence,
     findings         |-> findings]

\* sum() of a list of numbers
RSum(s) ==
    LET RECURSIVE upto(_)
        upto(k) == IF k = 0 THEN Zero ELSE RAdd(upto(k - 1), s[k])
    IN  upto(Len(s))

\* the methods of methodology_results, in insertion order
methods_of(methodology_results) ==
    SelectSeq(MethodNames, LAMBDA m : m \in DOMAIN methodology_results)

\* the weight scaled by 'confidence' even when 'confidence_level' is there
weight_by_confidence_first(results) ==
    IF "confidence" \in results.keys
    THEN RMul(results.method_weight, results.confidence)
    ELSE IF "confidence_level" \in results.keys
    THEN RMul(results.method_weight, results.confidence_level)
    ELSE results.method_weight

\* weight = results['method_weight'], scaled by 'confidence_level' if the
\* dict has it, elif by 'confidence'
effective_weight(results) ==
    IF "confidence_level" \in results.keys
    THEN RMul(results.method_weight, results.confidence_level)
    ELSE IF "confidence" \in results.keys
    THEN RMul(results.method_weight, results.confidence)
    ELSE results.method_weight

\* the quotient taken whatever the total weight is: 0 / 0 is not a number
combined_unguarded(weighted_correlations, total_weight) ==
    IF total_weight = Zero THEN NaN
    ELSE RDiv(RSum(weighted_correlations), total_weight)

\* (variant: the sum is divided by the number of methods)
combined_by_count(weighted_correlations, total_weight) ==
    IF RLess(Zero, total_weight)
    THEN RDiv(RSum(weighted_correlations), Rat(Len(weighted_correlations), 1))
    ELSE Zero

\* combined_correlation: the quotient if total_weight > 0, else 0.0
combined(weighted_correlations, total_weight) ==
    IF RLess(Zero, total_weight)
    THEN RDiv(RSum(weighted_correlations), total_weight)
    ELSE Zero

\* every method counted, one without a confidence value as 0
confidences_or_zero(methodology_results) ==
    LET ms == methods_of(methodology_results)
    IN  [i \in 1..Len(ms) |->
           LET results == methodology_results[ms[i]]
           IN  IF "confidence_level" \in results.keys THEN results.confidence_level
               ELSE IF "confidence" \in results.keys THEN results.confidence
               ELSE Zero]

\* the list confidences: one value per method that has one
confidences_of(methodology_results) ==
    LET ms == SelectSeq(methods_of(methodology_results),
                        LAMBDA m : methodology_results[m].keys # {})
    IN  [i \in 1..Len(ms) |->
           LET results == methodology_results[ms[i]]
           IN  IF "confidence_level" \in results.keys THEN results.confidence_level
               ELSE results.confidence]

\* np.mean(confidences) if confidences else 0.0
mean_or_zero(confidences) ==
    IF Len(confidences) = 0 THEN Zero
    ELSE RDiv(RSum(confidences), Rat(Len(confidences), 1))

\* the 'strength' _extract_top_correlations gives a finding: the finding's own
\* 'strength' (dignity, pathway), abs(correlation) * confidence (polygenic)
strength_of(method, corr) ==
    IF method = "polygenic"
    THEN RMul(RAbs(corr.correlation), corr.confidence)
    ELSE corr.strength

\* the entries of one method: details is the finding's position in the
\* method's list
entries_of(method, findings) ==
    [i \in 1..Len(findings) |->
       [method   |-> method,
        type     |-> FindingType[method],
        strength |-> strength_of(method, findings[i]),
        details  |-> i]]

\* all_correlations: the findings of the dignity, pathway and polygenic
\* entries, in that order, of the methods the mapping has
all_correlations_of(methodology_results) ==
    LET part(m) == IF m \in DOMAIN methodology_results
                   THEN entries_of(m, methodology_results[m].findings)
                   ELSE <<>>
    IN  part("dignity") \o part("pathway") \o part("polygenic")

\* e put into a list sorted by non-increasing strength, after the entries
\* that are not weaker
InsertDesc(sorted, e) ==
    LET before == {i \in 1..Len(sorted) : ~RLess(sorted[i].strength, e.strength)}
        k == Cardinality(before)
    IN  SubSeq(sorted, 1, k) \o <<e>> \o SubSeq(sorted, k + 1, Len(sorted))

\* the list left in the order the findings were pooled
pooled_order(all_correlations) == all_correlations

\* sorted(all_correlations, key=strength, reverse=True): stable
sorted_by_strength(all_correlations) ==
    LET RECURSIVE upto(_)
        upto(k) == IF k = 0 THEN <<>>
                   ELSE InsertDesc(upto(k - 1), all_correlations[k])
    IN  upto(Len(all_correlations))

\* the slice [:5]
TopCount == 5

_extract_top_correlations(methodology_results) ==
    LET sorted == sorted_by_strength(all_correlations_of(methodology_results))
    IN  SubSeq(sorted, 1, IF Len(sorted) < TopCount THEN Len(sorted) ELSE TopCount)

_meta_analyze_results(methodology_results) ==
    LET ms == methods_of(methodology_results)
        weights == [i \in 1..Len(ms) |-> effective_weight(methodology_results[ms[i]])]
        weighted_correlations ==
            [i \in 1..Len(ms) |->
               RMul(methodology_results[ms[i]].correlation, weights[i])]
        total_weight == RSum(weights)
    IN  [combined_correlation |-> combined(weighted_correlations, total_weight),
         combined_confidence  |-> mean_or_zero(confidences_of(methodology_results)),
         total_weight         |-> total_weight,
         top_correlations     |-> _extract_top_correlations(methodology_results)]

----------------------------------------------------------------------------
(* The meta-analysis as a state machine: a caller hands a mapping of method  *)
(* results to _meta_analyze_results or to _extract_top_correlations.         *)

\* which of 'confidence_level' and 'confidence' a dict has, and their values
\* (nan stands for a key the dict lacks: it is never read)
ConfidenceShapes ==
    {[keys |-> {}, confidence_level |-> NaN, confidence |-> NaN]}
    \cup {[keys |-> {"confidence_level"}, confidence_level |-> c, confidence |-> NaN] :
            c \in {Zero, Rat(1, 2)}}
    \cup {[keys |-> {"confidence"}, confidence_level |-> NaN, confidence |-> c] :
            c \in {Zero, One}}
    \cup {[keys |-> {"confidence_level", "confidence"},
           confidence_level |-> c, confidence |-> One] : c \in {Zero, Rat(1, 2)}}

\* a finding of a method, as _extract_top_correlations reads it
Finding(m, strength) ==
    IF m = "polygenic"
    THEN [correlation |-> RNeg(strength), confidence |-> One]
    ELSE [strength |-> strength]

\* the mapping with the entries that are there: each of d, p, g is <<>> or
\* <<the method's results>>
Mapping(d, p, g) ==
    LET opts == [dignity |-> d, pathway |-> p, polygenic |-> g]
    IN  [m \in {n \in {"dignity", "pathway", "polygenic"} : opts[n] # <<>>} |->
           opts[m][1]]

\* a method's entry in a mapping handed to _meta_analyze_results: none, or
\* results with a 'correlation' (the dignity method's comes from spearmanr and
\* can be nan) and a 'method_weight' (the method's weight, or no weight)
MetaEntries(m, with_findings) ==
    {<<>>}
    \cup {<<MethodResult(c, w, k.keys, k.confidence_level, k.confidence,
                         IF with_findings THEN <<Finding(m, MethodWeight[m])>>
                         ELSE <<>>)>> :
            c \in IF m = "dignity" THEN {Rat(-1, 2), One, NaN} ELSE {Rat(-1, 2), One},
            w \in {Zero, MethodWeight[m]},
            k \in ConfidenceShapes}

\* a method's entry in a mapping handed to _extract_top_correlations: none, or
\* results with up to MaxFindings findings of strength 0, 1/2 or 1
FindingEntries(m) ==
    {<<>>}
    \cup {<<MethodResult(One, MethodWeight[m], {}, NaN, NaN,
                         [i \in 1..n |-> Finding(m, f[i])])>> :
            n \in 0..MaxFindings,
            f \in [1..MaxFindings -> {Zero, Rat(1, 2), One}]}

MetaAnalyzeResults ==
    /\ pc = "idle"
    /\ \E with_findings \in BOOLEAN :
         \E d \in MetaEntries("dignity", with_findings),
            p \in MetaEntries("pathway", with_findings),
            g \in MetaEntries("polygenic", with_findings) :
           /\ call' = [op |-> "_meta_analyze_results",
                       methodology_results |-> Mapping(d, p, g)]
           /\ ret' = Returned(_meta_analyze_results(Mapping(d, p, g)), 0)
    /\ pc' = "done"
    /\ env' = NoEnv
    /\ UNCHANGED <<alpha, calculators>>

ExtractTopCorrelations ==
    /\ pc = "idle"
    /\ \E d \in FindingEntries("dignity"),
          p \in FindingEntries("pathway"),
          g \in FindingEntries("polygenic") :
         /\ call' = [op |-> "_extract_top_correlations",
                     methodology_results |-> Mapping(d, p, g)]
         /\ ret' = Returned(_extract_top_correlations(Mapping(d, p, g)), 0)
    /\ pc' = "done"
    /\ env' = NoEnv
    /\ UNCHANGED <<alpha, calculators>>

NextMeta ==
    \/ MetaAnalyzeResults
    \/ ExtractTopCorrelations
    \/ Return

SpecMeta == Init /\ [][NextMeta]_vars

----------------------------------------------------------------------------
(* Properties of the meta-analysis, checked under SpecMeta. *)

\* the mapping of the call in progress
CallResults == call.methodology_results

\* the confidence value of method m in the call's mapping: 'confidence_level'
\* before 'confidence'
ConfidenceOf(m) ==
    IF "confidence_level" \in CallResults[m].keys
    THEN CallResults[m].confidence_level
    ELSE CallResults[m].confidence

\* the methods of the call's mapping that have a confidence value
WithConfidence == {m \in DOMAIN CallResults : CallResults[m].keys # {}}

\* w_m of method m, 0 for a method the mapping lacks
WeightOf(m) ==
    IF m \notin DOMAIN CallResults THEN Zero
    ELSE IF m \in WithConfidence
    THEN RMul(CallResults[m].method_weight, ConfidenceOf(m))
    ELSE CallResults[m].method_weight

\* correlation_m * w_m of method m, 0 for a method the mapping lacks
WeightedOf(m) ==
    IF m \notin DOMAIN CallResults THEN Zero
    ELSE RMul(CallResults[m].correlation, WeightOf(m))

\* sum(w_m) and sum(correlation_m * w_m) over the three methods
TotalWeight ==
    RAdd(RAdd(WeightOf("dignity"), WeightOf("pathway")), WeightOf("polygenic"))

TotalWeighted ==
    RAdd(RAdd(WeightedOf("dignity"), WeightedOf("pathway")), WeightedOf("polygenic"))

\* C13: with a positive total weight, the combined correlation of
\* _meta_analyze_results is sum(correlation_m * w_m) / sum(w_m) over the
\* methods of the mapping, w_m being the method weight times the method's
\* 'confidence_level' if present, else times its 'confidence' if present,
\* else the method weight itself.
C13_CombinedIsWeightedMean ==
    (call.op = "_meta_analyze_results" /\ RLess(Zero, TotalWeight))
      => /\ ret.result.total_weight = TotalWeight
         /\ ret.result.combined_correlation
              = RDiv(TotalWeighted, TotalWeight)

\* three methods with a positive total weight: one has both fields with
\* different values, one has only 'confidence', one has neither
C13_Witness ==
    /\ call.op = "_meta_analyze_results"
    /\ DOMAIN CallResults = {"dignity", "pathway", "polygenic"}
    /\ CallResults["dignity"].keys = {}
    /\ CallResults["pathway"].keys = {"confidence_level", "confidence"}
    /\ CallResults["pathway"].confidence_level = Rat(1, 2)
    /\ CallResults["pathway"].confidence = One
    /\ CallResults["polygenic"].keys = {"confidence"}
    /\ \A m \in DOMAIN CallResults : RLess(Zero, WeightOf(m))
    /\ CallResults["dignity"].correlation # CallResults["pathway"].correlation
    /\ IsFinite(ret.result.combined_correlation)
    /\ RLess(ret.result.combined_correlation, One)

\* C14: when the total effective weight is 0 (every method weight or
\* confidence is zero, or the mapping is empty), _meta_analyze_results
\* returns the combined correlation 0.0 exactly: the quotient is not taken.
C14_ZeroWeightGivesZero ==
    (call.op = "_meta_analyze_results" /\ TotalWeight = Zero)
      => /\ ret.outcome = "returned"
         /\ ret.result.total_weight = Zero
         /\ ret.result.combined_correlation = Zero

\* a mapping whose weights all vanish, one through a zero confidence and one
\* through a zero method weight, with a correlation that is not a number
C14_Witness ==
    /\ call.op = "_meta_analyze_results"
    /\ ret.result.total_weight = Zero
    /\ ret.result.combined_correlation = Zero
    /\ \E m \in WithConfidence :
         RLess(Zero, CallResults[m].method_weight) /\ ConfidenceOf(m) = Zero
    /\ \E m \in DOMAIN CallResults : CallResults[m].method_weight = Zero
    /\ \E m \in DOMAIN CallResults : IsNaN(CallResults[m].correlation)

\* ConfidenceOf(m) if m has a confidence value, else 0
ConfidenceTerm(m) ==
    IF m \in WithConfidence THEN ConfidenceOf(m) ELSE Zero

\* C15: the combined confidence of _meta_analyze_results is the unweighted
\* mean of one confidence value per method that has one, 'confidence_level'
\* before 'confidence'; methods with neither field do not count, and it is
\* 0.0 when no method has a value.
C15_CombinedConfidenceIsMean ==
    call.op = "_meta_analyze_results"
      => ret.result.combined_confidence
           = IF WithConfidence = {} THEN Zero
             ELSE RDiv(RAdd(RAdd(ConfidenceTerm("dignity"),
                                 ConfidenceTerm("pathway")),
                            ConfidenceTerm("polygenic")),
                       Rat(Cardinality(WithConfidence), 1))

\* three methods, one of them without a confidence value, one with both
\* fields: the mean of 1/2 and 1 is 3/4
C15_Witness ==
    /\ call.op = "_meta_analyze_results"
    /\ Cardinality(DOMAIN CallResults) = 3
    /\ Cardinality(WithConfidence) = 2
    /\ \E m \in WithConfidence :
         /\ CallResults[m].keys = {"confidence_level", "confidence"}
         /\ CallResults[m].confidence_level = Rat(1, 2)
    /\ ret.result.combined_confidence = Rat(3, 4)

\* the findings pooled by the call: a method of the mapping and a position in
\* its list
Pooled ==
    {<<m, i>> \in {"dignity", "pathway", "polygenic"} \X (1..(MaxFindings + 1)) :
       m \in DOMAIN CallResults /\ i <= Len(CallResults[m].findings)}

\* the strength of a pooled finding
PooledStrength(f) ==
    LET corr == CallResults[f[1]].findings[f[2]]
    IN  IF f[1] = "polygenic" THEN RMul(RAbs(corr.correlation), corr.confidence)
        ELSE corr.strength

\* the pooled findings _extract_top_correlations returned
ReturnedFindings ==
    {<<ret.result[k].method, ret.result[k].details>> : k \in DOMAIN ret.result}

\* C16: _extract_top_correlations returns min(5, N) of the N pooled findings
\* of the dignity, pathway and polygenic methods, each once and with its
\* strength, in order of non-increasing strength, and no finding left out is
\* stronger than one returned.
C16_TopFiveByStrength ==
    call.op = "_extract_top_correlations"
      => LET top == ret.result
             N == Cardinality(Pooled)
         IN  /\ Len(top) = IF N < 5 THEN N ELSE 5
             /\ ReturnedFindings \subseteq Pooled
             /\ Cardinality(ReturnedFindings) = Len(top)
             /\ \A k \in DOMAIN top :
                  top[k].strength = PooledStrength(<<top[k].method, top[k].details>>)
             /\ \A k \in 1..(Len(top) - 1) :
                  RLeq(top[k + 1].strength, top[k].strength)
             /\ \A f \in ReturnedFindings, g \in Pooled \ ReturnedFindings :
                  RLeq(PooledStrength(g), PooledStrength(f))

\* six findings of three strengths are pooled, the first of them is the one
\* left out, and the polygenic ones are among the five returned
C16_Witness ==
    /\ call.op = "_extract_top_correlations"
    /\ Cardinality(Pooled) = 6
    /\ Len(ret.result) = 5
    /\ <<"dignity", 1>> \notin ReturnedFindings
    /\ ret.result[1].method = "polygenic"
    /\ RLess(ret.result[5].strength, ret.result[1].strength)

----------------------------------------------------------------------------
(* PolygenicCalculator *)

\* one line of a weight table
W(rsid, hundredths) == [rsid |-> rsid, weight |-> Rat(hundredths, 100)]

\* PRS_WEIGHTS: trait -> the (rsid, weight) lines of its table, in order
PRS_WEIGHTS ==
    [cardiovascular_disease |->
        <<W("rs429358", 35), W("rs7412", -28), W("rs662", 15),
          W("rs1333049", 22), W("rs1801133", 12)>>,
     cognitive_ability |->
        <<W("rs4680", -18), W("rs6265", 25), W("rs25531", 15), W("rs1800497", -12)>>,
     inflammatory_response |->
        <<W("rs1800629", 30), W("rs1800896", -20), W("rs1143634", 25), W("rs16944", 18)>>,
     metabolic_efficiency |->
        <<W("rs1801133", 22), W("rs1801282", -28), W("rs7903146", 32), W("rs9939609", 18)>>,
     athletic_performance |->
        <<W("rs1815739", 45), W("rs4994", 25), W("rs1800012", 15)>>]

\* POPULATION_REFERENCES: the threshold of each trait (every mean is 0.0 and
\* every std is 1.0, so the z-score of a score is the score)
POPULATION_REFERENCES ==
    [cardiovascular_disease |-> [threshold |-> Rat(15, 10)],
     cognitive_ability      |-> [threshold |-> Rat(10, 10)],
     inflammatory_response  |-> [threshold |-> Rat(12, 10)],
     metabolic_efficiency   |-> [threshold |-> Rat(-5, 10)],
     athletic_performance   |-> [threshold |-> Rat(18, 10)]]

\* the number sum / sqrt(root), root >= 1, kept exact
Surd(sum, root) == [sum |-> sum, root |-> root]

\* -1, 0 or 1 as the number s is below, equal to or above the rational t:
\* sum / sqrt(root) against t by the signs, then by the squares
SurdCmp(s, t) ==
    LET a == s.sum
        a2 == RMul(a, a)
        t2n == RMul(RMul(t, t), Rat(s.root, 1))
        mag == IF RLess(a2, t2n) THEN -1 ELSE IF RLess(t2n, a2) THEN 1 ELSE 0
    IN  IF Sign(a[1]) # Sign(t[1]) THEN (IF Sign(a[1]) < Sign(t[1]) THEN -1 ELSE 1)
        ELSE IF Sign(a[1]) >= 0 THEN mag
        ELSE -mag

\* two alleles where the protective weight is not looked at
risk_alleles_ignoring_weight(genotype, weight) ==
    IF genotype[1] = genotype[2] THEN 2 ELSE 1

\* risk_allele_count of a genotype of two alleles
risk_allele_count(genotype, weight) ==
    IF genotype[1] = genotype[2]
    THEN (IF RLess(Zero, weight) THEN 2 ELSE 0)
    ELSE 1

_calculate_genotype_effect(genotype, weight) ==
    IF Len(genotype) # 2 THEN Zero
    ELSE RMul(weight, Rat(risk_allele_count(genotype, weight), 1))

\* the lines of a weight table whose rsid the profile has
found_lines(profile, weights) ==
    SelectSeq(weights, LAMBDA w : w.rsid \in DOMAIN profile)

\* the score divided by the count instead of its square root
normalize_by_count(score, variant_count) ==
    IF variant_count > 0 THEN Surd(score, variant_count * variant_count)
    ELSE Surd(score, 1)

\* score / np.sqrt(variant_count) if variant_count > 0
normalize(score, variant_count) ==
    IF variant_count > 0 THEN Surd(score, variant_count)
    ELSE Surd(score, 1)

\* the count divided by the size of the largest table
coverage_of_five(variant_count, weights) == PyMin(Rat(variant_count, 5), One)

\* min(variant_count / len(weights), 1.0)
coverage(variant_count, weights) == PyMin(Rat(variant_count, Len(weights)), One)

\* norm.cdf is not rational.  It is replaced by a function of the z-score
\* z = sum / sqrt(root) with the same value 1/2 at 0, the same monotonicity
\* and the same limits 0 and 1: 1/2 + sign(z) * z^2 / (2 * (1 + z^2)).
NormCdf(z) ==
    LET z2 == RDiv(RMul(z.sum, z.sum), Rat(z.root, 1))
        half == Rat(z2[1], 2 * (z2[1] + z2[2]))
    IN  IF RLess(z.sum, Zero) THEN RSub(Rat(1, 2), half)
        ELSE RAdd(Rat(1, 2), half)

\* max(0, min(100, norm.cdf(z_score) * 100))
_calculate_percentile(score, trait) ==
    LET percentile == RMul(NormCdf(score), Rat(100, 1))
        capped == PyMin(Rat(100, 1), percentile)
    IN  IF RLess(Zero, capped) THEN capped ELSE Zero

_determine_risk_category(score, trait) ==
    LET ref == POPULATION_REFERENCES[trait]
        AtLeast(t) == SurdCmp(score, t) >= 0
        AtMost(t) == SurdCmp(score, t) <= 0
    IN  CASE trait = "cardiovascular_disease" ->
               IF AtLeast(ref.threshold) THEN "High Risk"
               ELSE IF AtLeast(Rat(1, 2)) THEN "Moderate Risk"
               ELSE IF AtLeast(Rat(-1, 2)) THEN "Average Risk"
               ELSE "Low Risk"
          [] trait = "cognitive_ability" ->
               IF AtLeast(ref.threshold) THEN "High Ability"
               ELSE IF AtLeast(Zero) THEN "Above Average"
               ELSE IF AtLeast(MinusOne) THEN "Average"
               ELSE "Below Average"
          [] trait = "inflammatory_response" ->
               IF AtLeast(ref.threshold) THEN "High Inflammation"
               ELSE IF AtLeast(Zero) THEN "Moderate Inflammation"
               ELSE "Low Inflammation"
          [] trait = "metabolic_efficiency" ->
               IF AtMost(ref.threshold) THEN "Highly Efficient"
               ELSE IF AtMost(Zero) THEN "Efficient"
               ELSE IF AtMost(One) THEN "Average"
               ELSE "Inefficient"
          [] trait = "athletic_performance" ->
               IF AtLeast(ref.threshold) THEN "Elite Potential"
               ELSE IF AtLeast(One) THEN "High Potential"
               ELSE IF AtLeast(Zero) THEN "Above Average"
               ELSE "Average"
          [] OTHER -> "Unknown"

PolygenicRiskScore(trait, score, percentile, risk_category, variant_count, confidence) ==
    [trait         |-> trait,
     score         |-> score,
     percentile    |-> percentile,
     risk_category |-> risk_category,
     variant_count |-> variant_count,
     confidence    |-> confidence]

UnknownTrait == "ValueError: Unknown trait"

\* variant_count / len(weights) for a table without lines
ZeroDivisionError == "ZeroDivisionError: division by zero"

\* the sum of the genotype effects of the lines found
effects_sum(profile, found) ==
    RSum([i \in 1..Len(found) |->
            _calculate_genotype_effect(profile[found[i].rsid], found[i].weight)])

\* calculate_prs once the trait's table is at hand
score_trait(profile, trait, weights, found) ==
    PolygenicRiskScore(trait,
                       normalize(effects_sum(profile, found), Len(found)),
                       _calculate_percentile(
                           normalize(effects_sum(profile, found), Len(found)), trait),
                       _determine_risk_category(
                           normalize(effects_sum(profile, found), Len(found)), trait),
                       Len(found),
                       coverage(Len(found), weights))

\* profile: the genotype of each variant of profile.variants, by rsid
calculate_prs(trait_weights, profile, trait) ==
    IF trait \notin DOMAIN trait_weights
    THEN Raised(UnknownTrait, 0)
    ELSE IF Len(trait_weights[trait]) = 0
    THEN Raised(ZeroDivisionError, 0)
    ELSE Returned(score_trait(profile, trait, trait_weights[trait],
                              found_lines(profile, trait_weights[trait])), 0)

----------------------------------------------------------------------------
(* The calculator as a state machine: a caller asks for the score of one     *)
(* trait of a profile.                                                       *)

\* genotype strings, as the sequence of their characters: homozygous,
\* heterozygous, and one that is not two characters long
Genotypes == {<<"A", "A">>, <<"A", "G">>, <<"A">>}

\* the traits a caller asks for: the built-in ones and one that is not
Traits == DOMAIN PRS_WEIGHTS \cup {"longevity"}

\* the rsids of a trait's table
RsidsOf(trait) ==
    IF trait \in DOMAIN PRS_WEIGHTS
    THEN {PRS_WEIGHTS[trait][i].rsid : i \in DOMAIN PRS_WEIGHTS[trait]}
    ELSE {}

\* the profiles: any part of the trait's variants, with any genotypes (the
\* other variants of a profile are not read)
Profiles(trait) ==
    UNION {[present -> Genotypes] : present \in SUBSET RsidsOf(trait)}

CalculatePrs ==
    /\ pc = "idle"
    /\ \E trait \in Traits :
         \E profile \in Profiles(trait) :
           /\ call' = [op |-> "calculate_prs", profile |-> profile, trait |-> trait]
           /\ ret' = calculate_prs(PRS_WEIGHTS, profile, trait)
    /\ pc' = "done"
    /\ env' = NoEnv
    /\ UNCHANGED <<alpha, calculators>>

NextPrs ==
    \/ CalculatePrs
    \/ Return

SpecPrs == Init /\ [][NextPrs]_vars

----------------------------------------------------------------------------
(* Properties of calculate_prs, checked under SpecPrs. *)

\* a built-in trait was scored
Scored == call.op = "calculate_prs" /\ ret.outcome = "returned"

\* the lines of the trait's table
TableOf(trait) == PRS_WEIGHTS[trait]

\* the positions of the table of the call's trait that the profile has
FoundAt == {i \in DOMAIN TableOf(call.trait) : TableOf(call.trait)[i].rsid \in DOMAIN call.profile}

\* weight * risk-allele-count of line i for the call's profile: for two
\* characters 1 if they differ, else 2 for a positive weight and 0 otherwise
ExpectedEffect(i) ==
    LET line == TableOf(call.trait)[i]
        genotype == call.profile[line.rsid]
    IN  IF i \notin FoundAt \/ Len(genotype) # 2 THEN Zero
        ELSE IF genotype[1] # genotype[2] THEN line.weight
        ELSE IF line.weight[1] > 0 THEN RMul(Rat(2, 1), line.weight)
        ELSE Zero

\* the sum of the expected effects of the lines 1..k
RECURSIVE ExpectedSum(_)
ExpectedSum(k) == IF k = 0 THEN Zero ELSE RAdd(ExpectedSum(k - 1), ExpectedEffect(k))

\* C17: the score of calculate_prs is the sum over the trait's variants the
\* profile has of weight * risk-allele-count (for a two-character genotype 1
\* if the alleles differ, 2 if they are equal and the weight is positive, 0
\* if they are equal and the weight is not positive), divided by the square
\* root of the number of variants found; it is 0 when none is found.
C17_ScoreIsNormalizedSum ==
    Scored
      => LET score == ret.result.score
             total == ExpectedSum(Len(TableOf(call.trait)))
         IN  /\ ret.result.variant_count = Cardinality(FoundAt)
             /\ score.sum = total
             /\ score.root = IF FoundAt = {} THEN 1 ELSE Cardinality(FoundAt)
             /\ FoundAt = {} => score.sum = Zero

\* a profile with a heterozygous variant, a homozygous risk variant, a
\* homozygous protective variant and a genotype of one character
C17_Witness ==
    /\ Scored
    /\ call.trait = "cardiovascular_disease"
    /\ DOMAIN call.profile = {"rs429358", "rs7412", "rs662", "rs1333049"}
    /\ call.profile["rs429358"] = <<"A", "A">>
    /\ call.profile["rs7412"] = <<"A", "A">>
    /\ call.profile["rs662"] = <<"A", "G">>
    /\ call.profile["rs1333049"] = <<"A">>
    /\ ret.result.score = Surd(Rat(85, 100), 4)

\* twice the positive weights of the lines 1..k of the call's trait: the sum
\* of the effects of a profile that has all of them homozygous
RECURSIVE HomozygousSum(_)
HomozygousSum(k) ==
    IF k = 0 THEN Zero
    ELSE LET w == TableOf(call.trait)[k].weight
         IN  RAdd(HomozygousSum(k - 1),
                  IF w[1] > 0 THEN RMul(Rat(2, 1), w) ELSE Zero)

\* the score of a profile that has every variant of the call's trait with a
\* homozygous genotype
HomozygousScore ==
    Surd(HomozygousSum(Len(TableOf(call.trait))), Len(TableOf(call.trait)))

\* |s| <= |t| for two numbers sum / sqrt(root)
MagnitudeLeq(s, t) ==
    RLeq(RMul(RMul(s.sum, s.sum), Rat(t.root, 1)),
         RMul(RMul(t.sum, t.sum), Rat(s.root, 1)))

\* the call's profile has every variant of the trait
FullProfile == FoundAt = DOMAIN TableOf(call.trait)

\* the call's profile has every variant of the trait, each homozygous
FullHomozygous ==
    /\ FullProfile
    /\ \A r \in DOMAIN call.profile :
         Len(call.profile[r]) = 2 /\ call.profile[r][1] = call.profile[r][2]

\* C18 as stated: for every built-in trait the score of a profile that has
\* every variant of the trait homozygous is of maximum magnitude over all
\* profiles, those with other genotypes and those with only a part of the
\* trait's variants.
C18_HomozygousIsMaximumOfAllProfiles ==
    Scored
      => /\ FullHomozygous => ret.result.score = HomozygousScore
         /\ MagnitudeLeq(ret.result.score, HomozygousScore)

\* C18 amended: for every built-in trait the score of a profile that has
\* every variant of the trait homozygous is of maximum magnitude over the
\* profiles that have every variant of the trait, whatever their genotypes.
C18_HomozygousIsMaximumOfFullProfiles ==
    (Scored /\ FullProfile)
      => /\ FullHomozygous => ret.result.score = HomozygousScore
         /\ MagnitudeLeq(ret.result.score, HomozygousScore)

\* the athletic_performance profile with its three variants homozygous scores
\* 1.70 / sqrt(3)
C18_Witness ==
    /\ Scored
    /\ call.trait = "athletic_performance"
    /\ FullHomozygous
    /\ ret.result.score = Surd(Rat(170, 100), 3)
    /\ ret.result.variant_count = 3

\* C19: for every built-in trait and profile the confidence of calculate_prs
\* is the number of the trait's variants the profile has over the number of
\* variants of the trait's table; it lies in [0, 1] and is 1.0 exactly when
\* the profile has every variant of the trait.
C19_ConfidenceIsCoverage ==
    Scored
      => LET confidence == ret.result.confidence
         IN  /\ confidence = Rat(Cardinality(FoundAt), Len(TableOf(call.trait)))
             /\ RLeq(Zero, confidence) /\ RLeq(confidence, One)
             /\ confidence = One <=> RsidsOf(call.trait) \subseteq DOMAIN call.profile

\* all four cognitive_ability variants are there, one of them with a
\* genotype that is not scored: the confidence is 1.0
C19_Witness ==
    /\ Scored
    /\ call.trait = "cognitive_ability"
    /\ FullProfile
    /\ \E r \in DOMAIN call.profile : Len(call.profile[r]) # 2
    /\ ret.result.confidence = One

----------------------------------------------------------------------------
(* DignityCorrelation.analyze_dignity_genetic_correlation *)

\* the keys of planetary_traits: _calculate_weighted_genetic_impact gives
\* each of them a score
TraditionalPlanets ==
    {"sun", "moon", "mercury", "venus", "mars", "jupiter", "saturn"}

\* the planets calculate_all_dignities skips
ModernPlanets == {"uranus", "neptune", "pluto"}

\* the planets a chart of the model can have, in the order of chart.planets
ChartOrder == <<"sun", "moon", "mercury", "venus", "uranus">>

\* the keys of calculate_all_dignities(chart), in order; chart maps each of
\* its planets to [total: its dignity total, house: its house]
dignity_planets(chart) ==
    SelectSeq(ChartOrder, LAMBDA p : p \in DOMAIN chart /\ p \notin ModernPlanets)

\* the planets of the first mapping's keys (in order) that the second has
aligned(planets, other) == SelectSeq(planets, LAMBDA p : p \in DOMAIN other)

InsufficientCorrelationData == "ValueError: Insufficient data for correlation analysis"

\* len(dignity_values) < 3
fewer_than_three(values) == Len(values) < 3

\* _bootstrap_confidence_interval: the resamples' correlations that are kept,
\* sorted, read at the indices int(0.025 * len) and int(0.975 * len) (counted
\* from 0); (-1.0, 1.0) if none
_bootstrap_confidence_interval(draws) ==
    LET correlations == SortAsc(successful_corrs(draws, Len(draws)))
    IN  IF Len(correlations) = 0 THEN <<MinusOne, One>>
        ELSE <<correlations[((25 * Len(correlations)) \div 1000) + 1],
               correlations[((975 * Len(correlations)) \div 1000) + 1]>>

\* _find_significant_individual_correlations: the planets with
\* abs(dignity_score) > 2 and abs(genetic_score) > 1, strongest first
_find_significant_individual_correlations(chart, genetic_impact) ==
    LET planets == SelectSeq(aligned(dignity_planets(chart), genetic_impact),
                     LAMBDA p : /\ RLess(Rat(2, 1), RAbs(chart[p].total))
                                /\ RLess(One, RAbs(genetic_impact[p])))
    IN  sorted_by_strength(
            [i \in 1..Len(planets) |->
               [planet        |-> planets[i],
                dignity_score |-> chart[planets[i]].total,
                genetic_score |-> genetic_impact[planets[i]],
                strength      |-> RAbs(RMul(chart[planets[i]].total,
                                            genetic_impact[planets[i]]))]])

DignityCorrelationResult(correlation_coefficient, p_value, confidence_interval, sample_size, dignity_scores, genetic_scores, significant_correlations) ==
    [correlation_coefficient  |-> correlation_coefficient,
     p_value                  |-> p_value,
     confidence_interval      |-> confidence_interval,
     sample_size              |-> sample_size,
     method                   |-> "Spearman",
     dignity_scores           |-> dignity_scores,
     genetic_scores           |-> genetic_scores,
     significant_correlations |-> significant_correlations]

\* the result once the aligned planets are known
dignity_result(chart, genetic_impact, planet_names, lib, draws) ==
    DignityCorrelationResult(
        lib.corr, lib.p, _bootstrap_confidence_interval(draws), Len(planet_names),
        [p \in Range(planet_names) |-> chart[p].total],
        [p \in Range(planet_names) |-> genetic_impact[p]],
        _find_significant_individual_correlations(chart, genetic_impact))

\* genetic_impact: the answer of _calculate_weighted_genetic_impact(profile);
\* lib: the answer of spearmanr on the aligned values; draws: its answers on
\* the resamples
analyze_dignity_genetic_correlation(chart, genetic_impact, lib, draws) ==
    IF fewer_than_three(aligned(dignity_planets(chart), genetic_impact))
    THEN Raised(InsufficientCorrelationData, 0)
    ELSE Returned(dignity_result(chart, genetic_impact,
                                 aligned(dignity_planets(chart), genetic_impact),
                                 lib, draws),
                  1 + Len(draws))

----------------------------------------------------------------------------
(* PathwayCorrelation.analyze_planetary_pathway_correlations *)

_calculate_house_strength(house) ==
    IF house \in {1, 4, 7, 10} THEN Rat(2, 1)
    ELSE IF house \in {2, 5, 8, 11} THEN One
    ELSE Zero

\* _calculate_aspect_strength returns the neutral 0.0
_calculate_planetary_strengths(chart) ==
    [p \in Range(dignity_planets(chart)) |->
       RAdd(RAdd(chart[p].total, _calculate_house_strength(chart[p].house)), Zero)]

\* _calculate_individual_correlation: the fields later steps read
_calculate_individual_correlation(planet_strength, pathway_score, pathway_info) ==
    [correlation     |-> RMul(Tanh(RDiv(planet_strength, Rat(5, 1))),
                              Tanh(RMul(pathway_score, Rat(2, 1)))),
     planet_strength |-> planet_strength,
     pathway_score   |-> pathway_score,
     significance    |-> PyMin(RDiv(Rat(pathway_info.pathway_count, 1), Rat(3, 1)), One)]

\* _identify_strongest_correlations: every planet, strongest first
_identify_strongest_correlations(planets, individual_correlations) ==
    sorted_by_strength(
        [i \in 1..Len(planets) |->
           LET corr_info == individual_correlations[planets[i]]
           IN  [planet       |-> planets[i],
                correlation  |-> corr_info.correlation,
                significance |-> corr_info.significance,
                strength     |-> RMul(RAbs(corr_info.correlation),
                                      corr_info.significance)]])

\* np.sqrt of a non-negative rational, to two decimals
Sqrt(v) == Rat(Isqrt((10000 * v[1]) \div v[2]), 100)

\* np.std of a non-empty list: the root of the mean squared deviation
Std(values) ==
    LET n == Rat(Len(values), 1)
        mean == RDiv(RSum(values), n)
        squares == [i \in 1..Len(values) |->
                      RMul(RSub(values[i], mean), RSub(values[i], mean))]
    IN  Sqrt(RDiv(RSum(squares), n))

\* Python's builtin max(a, b): b when b > a, else a
PyMax(a, b) == IF RLess(a, b) THEN b ELSE a

\* _calculate_confidence_level; variant_count is len(profile.variants)
_calculate_confidence_level(correlations, variant_count) ==
    LET variant_confidence == PyMin(RDiv(Rat(variant_count, 1), Rat(20, 1)), One)
        avg_correlation_strength ==
            IF Len(correlations) > 0
            THEN RDiv(RSum([i \in 1..Len(correlations) |-> RAbs(correlations[i])]),
                      Rat(Len(correlations), 1))
            ELSE Zero
        consistency ==
            IF Len(correlations) > 1
            THEN RSub(One, PyMin(Std(correlations), One))
            ELSE Rat(1, 2)
        overall_confidence ==
            RDiv(RAdd(RAdd(variant_confidence, avg_correlation_strength), consistency),
                 Rat(3, 1))
    IN  PyMax(Zero, PyMin(One, overall_confidence))

PathwayCorrelationResult(overall_correlation, p_value, individual_correlations, strongest_correlations, pathway_scores, planetary_strengths, confidence_level) ==
    [overall_correlation    |-> overall_correlation,
     p_value                |-> p_value,
     individual_correlations |-> individual_correlations,
     strongest_correlations |-> strongest_correlations,
     pathway_scores         |-> pathway_scores,
     planetary_strengths    |-> planetary_strengths,
     confidence_level       |-> confidence_level]

\* the overall correlation and its p-value: spearmanr's answer with at least
\* 3 planets, else 0.0 and 1.0
overall_of(planets, lib) ==
    IF Len(planets) >= 3 THEN lib ELSE LibAnswer(Zero, One)

\* the result once the planets with both a strength and pathway scores, and
\* their individual correlations, are known
pathway_result(planetary_strengths, pathway_correlations, planets, individual_correlations, variant_count, lib) ==
    PathwayCorrelationResult(
        overall_of(planets, lib).corr,
        overall_of(planets, lib).p,
        individual_correlations,
        _identify_strongest_correlations(planets, individual_correlations),
        [p \in DOMAIN pathway_correlations |-> pathway_correlations[p].total_score],
        planetary_strengths,
        _calculate_confidence_level(
            [i \in 1..Len(planets) |-> individual_correlations[planets[i]].correlation],
            variant_count))

\* the individual correlation of every planet that has a strength and
\* pathway scores
individual_correlations_of(planetary_strengths, pathway_correlations) ==
    [p \in DOMAIN planetary_strengths \cap DOMAIN pathway_correlations |->
       _calculate_individual_correlation(planetary_strengths[p],
                                         pathway_correlations[p].total_score,
                                         pathway_correlations[p])]

\* pathway_correlations: the answer of get_planetary_pathway_correlations
\* (planet -> [total_score, pathway_count]); variant_count: len(profile.variants);
\* lib: the answer of spearmanr, if it is asked
analyze_planetary_pathway_correlations(chart, pathway_correlations, variant_count, lib) ==
    Returned(pathway_result(
                 _calculate_planetary_strengths(chart),
                 pathway_correlations,
                 aligned(dignity_planets(chart), pathway_correlations),
                 individual_correlations_of(_calculate_planetary_strengths(chart),
                                            pathway_correlations),
                 variant_count, lib),
             IF Len(aligned(dignity_planets(chart), pathway_correlations)) >= 3
             THEN 1 ELSE 0)

----------------------------------------------------------------------------
(* The two correlation methods as a state machine: a caller runs one method  *)
(* on a chart and a profile.                                                 *)

\* the charts: any part of the planets of ChartOrder, each with its dignity
\* total and its house (uranus, which has no dignity, with one of them only)
Charts ==
    UNION {{chart \in [present -> {[total |-> Zero, house |-> 3],
                                   [total |-> Rat(5, 1), house |-> 1]}] :
              "uranus" \in present => chart["uranus"].house = 3} :
           present \in SUBSET Range(ChartOrder)}

\* the impact scores of the profile: a score for every traditional planet
GeneticImpacts ==
    {[p \in TraditionalPlanets |-> IF p \in strong THEN Rat(3, 2) ELSE Zero] :
       strong \in SUBSET (Range(ChartOrder) \cap TraditionalPlanets)}

\* the pathway scores of the profile: any part of the traditional planets of
\* ChartOrder, without or with pathways
PathwayCorrelations ==
    UNION {[present -> {[total_score |-> Zero, pathway_count |-> 0],
                        [total_score |-> Rat(1, 2), pathway_count |-> 3]}] :
           present \in SUBSET (Range(ChartOrder) \cap TraditionalPlanets)}

AnalyzeDignity ==
    /\ pc = "idle"
    /\ \E chart \in Charts, genetic_impact \in GeneticImpacts,
          lib \in BatchAnswers, draw \in BatchDraws :
         /\ call' = [op |-> "analyze_dignity_genetic_correlation",
                     chart |-> chart, genetic_impact |-> genetic_impact]
         /\ ret' = analyze_dignity_genetic_correlation(
                       chart, genetic_impact, lib, [i \in 1..MaxResamples |-> draw])
         /\ env' = IF ret'.libcalls = 0 THEN NoEnv
                   ELSE [NoEnv EXCEPT !.spearman = lib,
                                      !.draws = [i \in 1..MaxResamples |-> draw]]
    /\ pc' = "done"
    /\ UNCHANGED <<alpha, calculators>>

AnalyzePathway ==
    /\ pc = "idle"
    /\ \E chart \in Charts, pathway_correlations \in PathwayCorrelations,
          variant_count \in {0, 20},
          lib \in {LibAnswer(One, Zero), LibAnswer(NaN, NaN)} :
         /\ call' = [op |-> "analyze_planetary_pathway_correlations",
                     chart |-> chart,
                     pathway_correlations |-> pathway_correlations,
                     variant_count |-> variant_count]
         /\ ret' = analyze_planetary_pathway_correlations(
                       chart, pathway_correlations, variant_count, lib)
         /\ env' = IF ret'.libcalls = 0 THEN NoEnv
                   ELSE [NoEnv EXCEPT !.spearman = lib]
    /\ pc' = "done"
    /\ UNCHANGED <<alpha, calculators>>

NextCorrelation ==
    \/ AnalyzeDignity
    \/ AnalyzePathway
    \/ Return

SpecCorrelation == Init /\ [][NextCorrelation]_vars

----------------------------------------------------------------------------
(* Properties of the correlation methods, checked under SpecCorrelation. *)

\* the planets of the call's chart that have a dignity score
ScoredPlanets == DOMAIN call.chart \ ModernPlanets

\* the aligned planet pairs of the call: planets with a dignity score and a
\* genetic impact (dignity method) or pathway scores (pathway method)
AlignedPairs ==
    IF call.op = "analyze_dignity_genetic_correlation"
    THEN ScoredPlanets \cap DOMAIN call.genetic_impact
    ELSE ScoredPlanets \cap DOMAIN call.pathway_correlations

\* C20: the dignity method and the pathway method, which compute a Spearman
\* rank correlation, fail with an insufficient-data error and return no
\* result whenever fewer than 3 aligned planet pairs are available.
C20_TooFewPairsFail ==
    (call.op \in {"analyze_dignity_genetic_correlation",
                  "analyze_planetary_pathway_correlations"}
     /\ Cardinality(AlignedPairs) < 3)
      => /\ ret.outcome = "raised"
         /\ ret.error = InsufficientCorrelationData
         /\ ret.libcalls = 0

----------------------------------------------------------------------------
(* Properties of the confidence intervals, checked under Spec. *)

\* the confidence intervals a finished call reports: the one of its result,
\* those of the batch's results, or the dignity method's bootstrap interval
ReportedIntervals ==
    IF ret.outcome # "returned" THEN {}
    ELSE IF call.op \in {"validate_correlation", "bootstrap_validation",
                         "permutation_test"}
    THEN {ret.result.confidence_interval}
    ELSE IF call.op = "comprehensive_validation"
    THEN UNION {{ret.all_results[i].results[j].confidence_interval :
                    j \in 1..Len(ret.all_results[i].results)} :
                  i \in 1..Len(ret.all_results)}
    ELSE IF call.op = "analyze_dignity_genetic_correlation"
    THEN {ret.result.confidence_interval}
    ELSE {}

\* C21: every confidence interval a call reports (validate_correlation,
\* bootstrap_validation, permutation_test, the results of
\* comprehensive_validation, the dignity method's bootstrap interval)
\* satisfies lower <= upper, for every input and every resampling outcome.
C21_IntervalsAreOrdered ==
    \A ci \in ReportedIntervals : RLeq(ci[1], ci[2])

----------------------------------------------------------------------------
(* validate_correlation(x, y, 'pearson') on concrete data.  stats.pearsonr   *)
(* is computed from its definition r = cov(x, y) / sqrt(var(x) var(y)) on    *)
(* integer data: |r| = 1 exactly when cov^2 = var(x) var(y), and then the    *)
(* p-value is 0.  For other data r is the signed root to two decimals and   *)
(* the p-value, a decreasing function of |r|, is replaced by 1 - r^2.       *)

\* longest sample, largest slope and largest intercept of the concrete data
MaxSamples == 4
MaxSlope == 2
MaxIntercept == 1

RECURSIVE SumOf(_)
SumOf(s) == IF s = <<>> THEN 0 ELSE Head(s) + SumOf(Tail(s))

\* n * sum(x[i] y[i]), the uncentred co-moment of x and y
RawMoment(x, y) == Len(x) * SumOf([i \in 1..Len(x) |-> x[i] * y[i]])

\* n^2 cov(x, y) = n sum(x[i] y[i]) - sum(x) sum(y)
CoMoment(x, y) == RawMoment(x, y) - SumOf(x) * SumOf(y)

\* (r, p) from the co-moment and the two moments
correlation_of(sxy, sxx, syy) ==
    IF sxx = 0 \/ syy = 0 THEN LibAnswer(NaN, NaN)
    ELSE IF sxy * sxy = sxx * syy THEN LibAnswer(Rat(Sign(sxy), 1), Zero)
    ELSE LET r2 == Rat(sxy * sxy, sxx * syy)
         IN  LibAnswer(RMul(Rat(Sign(sxy), 1), Sqrt(r2)), RSub(One, r2))

\* (variant: the means are not subtracted)
pearsonr_uncentred(x, y) ==
    correlation_of(RawMoment(x, y), RawMoment(x, x), RawMoment(y, y))

\* stats.pearsonr(x, y) for sequences of equal length >= 3
pearsonr(x, y) ==
    correlation_of(CoMoment(x, y), CoMoment(x, x), CoMoment(y, y))

\* y = a * x + b, element by element
Line(x, a, b) == [i \in 1..Len(x) |-> a * x[i] + b]

\* the pair of the repository's test
TestPair == [x |-> <<1, 2, 3, 4, 5>>, y |-> <<2, 4, 6, 8, 10>>]

\* concrete x: the test's x and every x over 0..2 of 3 to MaxSamples elements
PearsonXs ==
    {TestPair.x} \cup UNION {[1..n -> 0..2] : n \in 3..MaxSamples}

\* concrete y for an x: the test's y, every increasing line through x and
\* every y over 0..2 of the same length
PearsonYs(x) ==
    {y \in {TestPair.y} : Len(y) = Len(x)} \cup
    {Line(x, a, b) : a \in 1..MaxSlope, b \in 0..MaxIntercept} \cup
    [1..Len(x) -> 0..2]

ValidatePearson ==
    /\ pc = "idle"
    /\ \E x \in PearsonXs :
         \E y \in PearsonYs(x) :
           /\ call' = [NoCall EXCEPT !.op = "validate_correlation",
                                     !.x = x, !.y = y,
                                     !.method = "pearson"]
           /\ env' = [NoEnv EXCEPT !.pearson = pearsonr(x, y)]
           /\ ret' = validate_correlation(alpha, x, y, "pearson",
                                          env'.pearson)
    /\ pc' = "done"
    /\ UNCHANGED <<alpha, calculators>>

NextPearson ==
    \/ ValidatePearson
    \/ Return

SpecPearson == Init /\ [][NextPearson]_vars

----------------------------------------------------------------------------
(* Properties of the Pearson correlation, checked under SpecPearson. *)

\* y = a x + b for a slope a > 0, the same for every element
IsIncreasingLine(x, y) ==
    /\ Len(x) = Len(y)
    /\ \E a \in 1..(2 * MaxSlope), b \in 0..(2 * MaxIntercept) :
         \A i \in 1..Len(x) : y[i] = a * x[i] + b

IsConstant(x) == \A i, j \in 1..Len(x) : x[i] = x[j]

----------------------------------------------------------------------------
(* The five calls of a validator together. *)

NextValidator ==
    \/ Next
    \/ ComprehensiveValidation

SpecValidator == Init /\ [][NextValidator]_vars

----------------------------------------------------------------------------
(* Properties of the validator's state, checked under SpecValidator. *)

\* the five calls of StatisticalValidator
ValidatorCalls ==
    {"validate_correlation", "bootstrap_validation", "permutation_test",
     "multiple_testing_correction", "comprehensive_validation"}

\* C23: a validator constructed without arguments has alpha = 0.05, and no
\* call of the five, returning or raising, changes the validator's alpha or
\* the caller's input sequences and mapping.
C23_AlphaAndInputsUnchanged ==
    /\ DefaultAlpha = Rat(1, 20)
    /\ [][/\ alpha' = alpha
          /\ call'.op \in ValidatorCalls => env'.after = call']_vars

\* a permutation test has shuffled copies of the caller's y and returned, and
\* y is as the caller passed it
C23_Witness ==
    /\ call.op = "permutation_test"
    /\ ret.outcome = "returned"
    /\ FiniteDraws # {}
    /\ Len(call.y) >= 3
    /\ env.after.y = call.y
    /\ alpha = DefaultAlpha

----------------------------------------------------------------------------
(* Bounds of the combined correlation, checked under SpecMeta. *)

\* the correlations of the methods of the call's mapping
MethodCorrelations == {CallResults[m].correlation : m \in DOMAIN CallResults}

\* C24: when every method correlation lies in [-1, 1] and every effective
\* weight is non-negative, the combined correlation of _meta_analyze_results
\* lies between the smallest and the largest method correlation if the total
\* weight is positive and is 0 otherwise, so it lies in [-1, 1].
C24_CombinedWithinMethodCorrelations ==
    (/\ call.op = "_meta_analyze_results"
     /\ \A c \in MethodCorrelations : RLeq(MinusOne, c) /\ RLeq(c, One)
     /\ \A m \in DOMAIN CallResults : RLeq(Zero, WeightOf(m)))
      => LET r == ret.result.combined_correlation
         IN  /\ ret.outcome = "returned"
             /\ RLeq(MinusOne, r) /\ RLeq(r, One)
             /\ RLess(Zero, TotalWeight)
                  => /\ \E c \in MethodCorrelations : RLeq(c, r)
                     /\ \E c \in MethodCorrelations : RLeq(r, c)
             /\ ~RLess(Zero, TotalWeight) => r = Zero

\* three weighted methods with different correlations: the combined
\* correlation lies strictly between the smallest and the largest
C24_Witness ==
    /\ call.op = "_meta_analyze_results"
    /\ DOMAIN CallResults = {"dignity", "pathway", "polygenic"}
    /\ \A m \in DOMAIN CallResults : RLess(Zero, WeightOf(m))
    /\ \E c \in MethodCorrelations : RLess(c, ret.result.combined_correlation)
    /\ \E c \in MethodCorrelations : RLess(ret.result.combined_correlation, c)

----------------------------------------------------------------------------
(* The interval of the smallest valid sample, checked under Spec. *)

\* C25: validate_correlation with exactly 3 paired observations and a known
\* method returns a result whose confidence interval is (-1.0, 1.0) exactly,
\* whatever the library answers: the Fisher interval is computed only for
\* more than 3 observations.
C25_ThreeObservationsGiveFullInterval ==
    (/\ call.op = "validate_correlation"
     /\ Len(call.x) = 3 /\ Len(call.y) = 3
     /\ known_correlation_method(call.method))
      => /\ ret.outcome = "returned"
         /\ ret.result.confidence_interval = <<MinusOne, One>>

\* three observations with a perfect correlation, where the Fisher transform
\* would be infinite
C25_Witness ==
    /\ call.op = "validate_correlation"
    /\ Len(call.x) = 3 /\ Len(call.y) = 3
    /\ ret.outcome = "returned"
    /\ ret.result.statistic = One
    /\ ret.result.confidence_interval = <<MinusOne, One>>

----------------------------------------------------------------------------
(* The pool of p-values of comprehensive_validation, checked under          *)
(* SpecBatch.                                                               *)

\* C26: in comprehensive_validation a pair recorded as 'Validation Error'
\* adds no p-value to the pool and gets no '(FDR corrected)' copy, and the
\* corrected p-value attached to an original result is the correction of
\* that result's own p-value: the index into the pool is the result's
\* position among the non-error results and never runs past the end of the
\* pool.
C26_PoolIndexFollowsOriginals ==
    IsBatch =>
      /\ ret.error # IndexError
      /\ Len(ret.pool) = PoolOffset(Len(call.correlations) + 1)
      /\ \A i \in 1..Len(call.correlations) :
           PairRaises(i) => ret.all_results[i].results = <<error_result>>
      /\ \A i \in 1..Len(call.correlations) :
           (~PairRaises(i) /\ Len(ret.pool) > 1) =>
             LET orig == ret.stage1[i].results
                 k    == Len(orig)
                 now  == ret.all_results[i].results
             IN  \A j \in 1..k :
                   /\ Len(now) >= k + j
                   /\ now[k + j].test_name = orig[j].test_name \o " (FDR corrected)"
                   /\ ret.pool[PoolOffset(i) + j] = orig[j].p_value
                   /\ now[k + j].p_value = BHValue(ret.pool, PoolOffset(i) + j)

----------------------------------------------------------------------------
(* The range of the FDR correction, checked under Spec. *)

\* the largest value of a non-empty list of numbers
Largest(values) ==
    CHOOSE v \in Range(values) : \A w \in Range(values) : RLeq(w, v)

\* C27: for a non-empty list of p-values in [0, 1] the largest FDR-corrected
\* value equals the largest p-value, so every corrected value lies in
\* [0, 1]; and positions with equal p-values get equal corrected values,
\* whichever order np.argsort gives to ties.
C27_FdrLargestAndTies ==
    (/\ call.op = "multiple_testing_correction"
     /\ call.method = "fdr"
     /\ call.p_values # <<>>)
      => /\ ret.outcome = "returned"
         /\ Len(ret.values) = Len(call.p_values)
         /\ Largest(ret.values) = Largest(call.p_values)
         /\ \A j \in 1..Len(ret.values) :
              RLeq(Zero, ret.values[j]) /\ RLeq(ret.values[j], One)
         /\ \A i, j \in 1..Len(call.p_values) :
              call.p_values[i] = call.p_values[j] => ret.values[i] = ret.values[j]

\* tied p-values that np.argsort returned in reverse position order, with a
\* largest p-value below 1
C27_Witness ==
    /\ call.op = "multiple_testing_correction"
    /\ call.method = "fdr"
    /\ ret.outcome = "returned"
    /\ Len(call.p_values) = 3
    /\ call.p_values[1] = call.p_values[2]
    /\ \E a, b \in 1..3 : a < b /\ env.order[a] = 2 /\ env.order[b] = 1
    /\ RLess(Largest(call.p_values), One)
    /\ RLess(ret.values[1], Largest(ret.values))

----------------------------------------------------------------------------
(* ComprehensiveAnalyzer.comprehensive_astro_genetic_analysis: the three     *)
(* methods on one chart and one profile, then the meta-analysis.  The chart  *)
(* (calculate_chart) and the profile (load_genetic_data) are inputs; the     *)
(* report texts and the validation summary, which nothing reads back, are    *)
(* left out of the result.                                                   *)

\* calculate_all_prs for tables that are not empty: the score of every trait
all_scores(trait_weights, profile) ==
    [trait \in DOMAIN trait_weights |->
       calculate_prs(trait_weights, profile, trait).result]

\* np.tanh of a score sum / sqrt(root), replaced like norm.cdf by a function
\* of z^2 with the same sign, monotonicity and limits:
\* sign(z) z^2 / (1 + z^2), to two decimals
TanhOfScore(z) ==
    LET z2 == RDiv(RMul(z.sum, z.sum), Rat(z.root, 1))
        size == Rat((100 * z2[1]) \div (z2[1] + z2[2]), 100)
    IN  IF RLess(z.sum, Zero) THEN RNeg(size) ELSE size

\* trait_planet_map, in insertion order
trait_planet_map ==
    <<[trait |-> "cardiovascular_disease", planet |-> "sun"],
      [trait |-> "cognitive_ability",      planet |-> "mercury"],
      [trait |-> "inflammatory_response",  planet |-> "mars"],
      [trait |-> "metabolic_efficiency",   planet |-> "venus"],
      [trait |-> "athletic_performance",   planet |-> "mars"]>>

\* the values of trait_correlations, for the lines of the map whose trait
\* has a score and whose planet has a dignity
trait_correlations_of(chart, prs_scores, lines) ==
    [i \in 1..Len(lines) |->
       [trait         |-> lines[i].trait,
        correlation   |-> RMul(TanhOfScore(prs_scores[lines[i].trait].score),
                               Tanh(RDiv(chart[lines[i].planet].total, Rat(5, 1)))),
        prs_score     |-> prs_scores[lines[i].trait].score,
        dignity_score |-> chart[lines[i].planet].total,
        confidence    |-> prs_scores[lines[i].trait].confidence]]

\* the dict _analyze_polygenic_correlations returns, once the values of
\* trait_correlations are known
polygenic_summary(trait_correlations) ==
    [overall_correlation |->
       mean_or_zero([i \in 1..Len(trait_correlations) |->
                       trait_correlations[i].correlation]),
     trait_correlations  |-> trait_correlations,
     confidence          |->
       mean_or_zero([i \in 1..Len(trait_correlations) |->
                       trait_correlations[i].confidence])]

_analyze_polygenic_correlations(chart, profile) ==
    polygenic_summary(
        trait_correlations_of(
            chart, all_scores(PRS_WEIGHTS, profile),
            SelectSeq(trait_planet_map,
                      LAMBDA l : /\ l.trait \in DOMAIN PRS_WEIGHTS
                                 /\ l.planet \in Range(dignity_planets(chart)))))

\* (variant: the dignity entry carries 1 - p_value as its 'confidence')
dignity_entry_with_confidence(dignity_results) ==
    MethodResult(dignity_results.correlation_coefficient, MethodWeight["dignity"],
                 {"confidence"}, NaN, RSub(One, dignity_results.p_value),
                 dignity_results.significant_correlations)

\* methodology_results['dignity']: no 'confidence' and no 'confidence_level'
dignity_entry(dignity_results) ==
    MethodResult(dignity_results.correlation_coefficient, MethodWeight["dignity"],
                 {}, NaN, NaN, dignity_results.significant_correlations)

\* methodology_results['pathway']
pathway_entry(pathway_results) ==
    MethodResult(pathway_results.overall_correlation, MethodWeight["pathway"],
                 {"confidence_level"}, pathway_results.confidence_level, NaN,
                 pathway_results.strongest_correlations)

\* methodology_results['polygenic']
polygenic_entry(polygenic_results) ==
    MethodResult(polygenic_results.overall_correlation, MethodWeight["polygenic"],
                 {"confidence"}, NaN, polygenic_results.confidence,
                 polygenic_results.trait_correlations)

\* the dataclass, with the meta-analysis it was filled from
ComprehensiveResults(methodology_results, meta_results) ==
    [overall_correlation |-> meta_results.combined_correlation,
     confidence_level    |-> meta_results.combined_confidence,
     methodology_results |-> methodology_results,
     top_correlations    |-> meta_results.top_correlations,
     total_weight        |-> meta_results.total_weight]

\* steps 3 and 4 once every method has returned
combine_methods(methodology_results, libcalls) ==
    Returned(ComprehensiveResults(methodology_results,
                                  _meta_analyze_results(methodology_results)),
             libcalls)

\* dignity, pathway: how the two correlation methods ended on the chart and
\* the profile.  The dignity method is called first and its exception is not
\* caught; the pathway method does not raise.
comprehensive_astro_genetic_analysis(chart, profile, dignity, pathway) ==
    IF dignity.outcome = "raised" THEN dignity
    ELSE combine_methods(
             [dignity   |-> dignity_entry(dignity.result),
              pathway   |-> pathway_entry(pathway.result),
              polygenic |-> polygenic_entry(
                                _analyze_polygenic_correlations(chart, profile))],
             dignity.libcalls + pathway.libcalls)

----------------------------------------------------------------------------
(* The comprehensive analysis as a state machine: a caller runs it on one    *)
(* chart and one profile.                                                    *)

\* the profiles: no variant, the variants of one trait or of every trait,
\* all homozygous or all heterozygous
AnalysisProfiles ==
    {[r \in present |-> g] :
       present \in {{}, RsidsOf("cardiovascular_disease"),
                    UNION {RsidsOf(t) : t \in DOMAIN PRS_WEIGHTS}},
       g \in {<<"A", "A">>, <<"A", "G">>}}

\* what the analyzers make of the profile: impact scores all zero or all
\* strong, pathway scores for no planet or for every traditional planet of
\* ChartOrder
AnalysisImpacts ==
    {g \in GeneticImpacts : \A p, q \in DOMAIN g : g[p] = g[q]}

AnalysisPathways ==
    {c \in PathwayCorrelations :
       /\ DOMAIN c \in {{}, Range(ChartOrder) \cap TraditionalPlanets}
       /\ \A p, q \in DOMAIN c : c[p] = c[q]}

\* env holds the answers of spearmanr to the dignity method; its answer to
\* the pathway method is the pathway entry's correlation
ComprehensiveAnalysis ==
    /\ pc = "idle"
    /\ \E chart \in Charts, profile \in AnalysisProfiles,
          genetic_impact \in AnalysisImpacts,
          pathway_correlations \in AnalysisPathways,
          lib \in BatchAnswers,
          pathway_lib \in {LibAnswer(Rat(1, 2), Rat(1, 20)), LibAnswer(NaN, NaN)} :
         /\ call' = [op |-> "comprehensive_astro_genetic_analysis",
                     chart |-> chart, profile |-> profile,
                     genetic_impact |-> genetic_impact,
                     pathway_correlations |-> pathway_correlations]
         /\ env' = [NoEnv EXCEPT !.spearman = lib,
                                 !.draws = [i \in 1..MaxResamples |->
                                              Draw(FALSE, Rat(1, 2))]]
         /\ ret' = comprehensive_astro_genetic_analysis(
                       chart, profile,
                       analyze_dignity_genetic_correlation(
                           chart, genetic_impact, lib, env'.draws),
                       analyze_planetary_pathway_correlations(
                           chart, pathway_correlations,
                           Cardinality(DOMAIN profile), pathway_lib))
    /\ pc' = "done"
    /\ UNCHANGED <<alpha, calculators>>

NextAnalysis ==
    \/ ComprehensiveAnalysis
    \/ Return

SpecAnalysis == Init /\ [][NextAnalysis]_vars

----------------------------------------------------------------------------
(* Properties of the comprehensive analysis, checked under SpecAnalysis. *)

\* the analysis returned
Analysed ==
    call.op = "comprehensive_astro_genetic_analysis" /\ ret.outcome = "returned"

\* C28: when the three methods return, the dignity entry of
\* methodology_results has neither 'confidence' nor 'confidence_level', so
\* its weight 0.4 is not scaled: the total effective weight is 0.4 plus the
\* pathway and polygenic weights scaled by their confidences, which lie in
\* [0, 1]; it is at least 0.4 and the zero-weight default is never taken.
C28_TotalWeightAtLeastDignityWeight ==
    Analysed =>
      LET entries == ret.result.methodology_results
          level == entries["pathway"].confidence_level
          conf  == entries["polygenic"].confidence
      IN  /\ entries["dignity"].keys = {}
          /\ entries["pathway"].keys = {"confidence_level"}
          /\ entries["polygenic"].keys = {"confidence"}
          /\ RLeq(Zero, level) /\ RLeq(level, One)
          /\ RLeq(Zero, conf) /\ RLeq(conf, One)
          /\ ret.result.total_weight
               = RAdd(Rat(2, 5), RAdd(RMul(Rat(35, 100), level),
                                      RMul(Rat(25, 100), conf)))
          /\ RLeq(Rat(2, 5), ret.result.total_weight)

\* an analysis whose pathway and polygenic confidences are strictly between
\* 0 and 1 and whose dignity correlation has p-value 1/20
C28_Witness ==
    /\ Analysed
    /\ env.spearman.p = Rat(1, 20)
    /\ RLess(Zero, ret.result.methodology_results["pathway"].confidence_level)
    /\ RLess(ret.result.methodology_results["pathway"].confidence_level, One)
    /\ RLess(Zero, ret.result.methodology_results["polygenic"].confidence)
    /\ RLess(ret.result.methodology_results["polygenic"].confidence, One)
    /\ RLess(ret.result.total_weight, One)

----------------------------------------------------------------------------
(* DignityCalculator.calculate_dignity_score and calculate_all_dignities.   *)
(* Here a chart maps each of its planets to the sign it stands in.          *)

Signs ==
    {"Aries", "Taurus", "Gemini", "Cancer", "Leo", "Virgo", "Libra",
     "Scorpio", "Sagittarius", "Capricorn", "Aquarius", "Pisces"}

\* the planets of ChartCalculator.PLANETS, in order
PLANETS ==
    <<"sun", "moon", "mercury", "venus", "mars", "jupiter", "saturn",
      "uranus", "neptune", "pluto">>

DOMICILES ==
    [sun     |-> {"Leo"},
     moon    |-> {"Cancer"},
     mercury |-> {"Gemini", "Virgo"},
     venus   |-> {"Taurus", "Libra"},
     mars    |-> {"Aries", "Scorpio"},
     jupiter |-> {"Sagittarius", "Pisces"},
     saturn  |-> {"Capricorn", "Aquarius"}]

EXALTATIONS ==
    [sun |-> "Aries", moon |-> "Taurus", mercury |-> "Virgo", venus |-> "Pisces",
     mars |-> "Capricorn", jupiter |-> "Cancer", saturn |-> "Libra"]

DETRIMENTS ==
    [sun     |-> {"Aquarius"},
     moon    |-> {"Capricorn"},
     mercury |-> {"Sagittarius", "Pisces"},
     venus   |-> {"Scorpio", "Aries"},
     mars    |-> {"Libra", "Taurus"},
     jupiter |-> {"Gemini", "Virgo"},
     saturn  |-> {"Cancer", "Leo"}]

FALLS ==
    [sun |-> "Libra", moon |-> "Scorpio", mercury |-> "Pisces", venus |-> "Virgo",
     mars |-> "Cancer", jupiter |-> "Capricorn", saturn |-> "Aries"]

\* the day rulers of TRIPLICITIES; the night rulers are not read
TRIPLICITIES ==
    [fire |-> "sun", earth |-> "venus", air |-> "saturn", water |-> "mars"]

SIGN_ELEMENTS ==
    [s \in Signs |->
       IF s \in {"Aries", "Leo", "Sagittarius"} THEN "fire"
       ELSE IF s \in {"Taurus", "Virgo", "Capricorn"} THEN "earth"
       ELSE IF s \in {"Gemini", "Libra", "Aquarius"} THEN "air"
       ELSE "water"]

PlanetNotFound == "ValueError: Planet not found in chart"

domicile_score(planet, sign) ==
    IF planet \in DOMAIN DOMICILES /\ sign \in DOMICILES[planet] THEN 5 ELSE 0

exaltation_score(planet, sign) ==
    IF planet \in DOMAIN EXALTATIONS /\ sign = EXALTATIONS[planet] THEN 4 ELSE 0

detriment_score(planet, sign) ==
    IF planet \in DOMAIN DETRIMENTS /\ sign \in DETRIMENTS[planet] THEN -5 ELSE 0

\* (variant: the fall is looked up in the table of exaltations)
fall_score_in_exaltation(planet, sign) ==
    IF planet \in DOMAIN EXALTATIONS /\ sign = EXALTATIONS[planet] THEN -4 ELSE 0

fall_score(planet, sign) ==
    IF planet \in DOMAIN FALLS /\ sign = FALLS[planet] THEN -4 ELSE 0

triplicity_score(planet, sign) ==
    IF sign \in DOMAIN SIGN_ELEMENTS
       /\ SIGN_ELEMENTS[sign] \in DOMAIN TRIPLICITIES
       /\ planet = TRIPLICITIES[SIGN_ELEMENTS[sign]]
    THEN 3 ELSE 0

\* sum(scores.values())
total_of(scores) ==
    scores.domicile + scores.exaltation + scores.triplicity + scores.term
    + scores.face + scores.detriment + scores.fall

\* the dict of the seven scores, 'term' and 'face' being left at 0
scores_of(planet, sign) ==
    [domicile   |-> domicile_score(planet, sign),
     exaltation |-> exaltation_score(planet, sign),
     triplicity |-> triplicity_score(planet, sign),
     term       |-> 0,
     face       |-> 0,
     detriment  |-> detriment_score(planet, sign),
     fall       |-> fall_score(planet, sign)]

\* the dict returned: the scores, their total and the sign ('degree', a copy
\* of the position's degree, is left out)
dignity_of(scores, sign) ==
    [domicile   |-> scores.domicile,
     exaltation |-> scores.exaltation,
     triplicity |-> scores.triplicity,
     term       |-> scores.term,
     face       |-> scores.face,
     detriment  |-> scores.detriment,
     fall       |-> scores.fall,
     total      |-> total_of(scores),
     sign       |-> sign]

calculate_dignity_score(chart, planet) ==
    IF planet \notin DOMAIN chart THEN Raised(PlanetNotFound, 0)
    ELSE Returned(dignity_of(scores_of(planet, chart[planet]), chart[planet]), 0)

\* every planet of the chart but the modern ones
calculate_all_dignities(chart) ==
    Returned([planet \in DOMAIN chart \ ModernPlanets |->
                calculate_dignity_score(chart, planet).result], 0)

----------------------------------------------------------------------------
(* The dignity calculator as a state machine. *)

\* most planets of a chart handed to calculate_all_dignities
MaxChartPlanets == 2

CalculateDignityScore ==
    /\ pc = "idle"
    /\ \E present \in Range(PLANETS), sign \in Signs, planet \in Range(PLANETS) :
         /\ call' = [op |-> "calculate_dignity_score",
                     chart |-> [p \in {present} |-> sign], planet |-> planet]
         /\ ret' = calculate_dignity_score(call'.chart, planet)
    /\ pc' = "done"
    /\ env' = NoEnv
    /\ UNCHANGED <<alpha, calculators>>

CalculateAllDignities ==
    /\ pc = "idle"
    /\ \E present \in {s \in SUBSET Range(PLANETS) : Cardinality(s) <= MaxChartPlanets} :
         \E chart \in [present -> {"Aries", "Virgo"}] :
           /\ call' = [op |-> "calculate_all_dignities", chart |-> chart,
                       planet |-> ""]
           /\ ret' = calculate_all_dignities(chart)
    /\ pc' = "done"
    /\ env' = NoEnv
    /\ UNCHANGED <<alpha, calculators>>

NextDignity ==
    \/ CalculateDignityScore
    \/ CalculateAllDignities
    \/ Return

SpecDignity == Init /\ [][NextDignity]_vars

----------------------------------------------------------------------------
(* Properties of the dignity calculator, checked under SpecDignity. *)

\* C29: for each of the 7 traditional planets in each of the 12 signs
\* calculate_dignity_score never gives both a positive essential dignity
\* (domicile +5 or exaltation +4) and a debility (detriment -5 or fall -4);
\* total is the sum of the component scores and lies in [-9, 9]; and
\* calculate_all_dignities returns an entry for every planet of the chart
\* except uranus, neptune and pluto.
C29_DignityAndDebilityExclude ==
    /\ (/\ call.op = "calculate_dignity_score"
        /\ call.planet \in TraditionalPlanets
        /\ call.planet \in DOMAIN call.chart)
         => /\ ret.outcome = "returned"
            /\ LET r == ret.result
               IN  /\ r.domicile \in {0, 5} /\ r.exaltation \in {0, 4}
                   /\ r.detriment \in {0, -5} /\ r.fall \in {0, -4}
                   /\ ~((r.domicile > 0 \/ r.exaltation > 0)
                        /\ (r.detriment < 0 \/ r.fall < 0))
                   /\ r.total = r.domicile + r.exaltation + r.triplicity + r.term
                                + r.face + r.detriment + r.fall
                   /\ r.total >= -9 /\ r.total <= 9
    /\ call.op = "calculate_all_dignities"
         => /\ ret.outcome = "returned"
            /\ DOMAIN ret.result = DOMAIN call.chart \ {"uranus", "neptune", "pluto"}

\* mercury in Virgo, in domicile and exalted at once: the largest total
C29_Witness ==
    /\ call.op = "calculate_dignity_score"
    /\ call.planet = "mercury"
    /\ ret.outcome = "returned"
    /\ ret.result.sign = "Virgo"
    /\ ret.result.total = 9

----------------------------------------------------------------------------
(* PolygenicCalculator.add_custom_trait and calculate_all_prs.  calculators  *)
(* holds what has been registered since import: on the class-level tables    *)
(* (nothing in the source writes there) and on each instance's own copies.   *)

\* d[trait_name] = value on a dict of registered traits
registered(entries, trait_name, variant_weights, population_params) ==
    [t \in DOMAIN entries \cup {trait_name} |->
       IF t = trait_name
       THEN [weights |-> variant_weights, params |-> population_params]
       ELSE entries[t]]

\* add_custom_trait on instance i: both assignments go to the instance's
\* own dicts
add_custom_trait(calcs, i, trait_name, variant_weights, population_params) ==
    [calcs EXCEPT !.instances[i] =
       registered(@, trait_name, variant_weights, population_params)]

\* self.trait_weights of instance i: the copy of PRS_WEIGHTS made by
\* __init__, with what was registered on top
trait_weights_of(calcs, i) ==
    [t \in DOMAIN PRS_WEIGHTS \cup DOMAIN calcs.class
           \cup DOMAIN calcs.instances[i] |->
       IF t \in DOMAIN calcs.instances[i] THEN calcs.instances[i][t].weights
       ELSE IF t \in DOMAIN calcs.class THEN calcs.class[t].weights
       ELSE PRS_WEIGHTS[t]]

\* the loop over self.trait_weights: the first calculate_prs that raises ends
\* the call
calculate_all_prs(trait_weights, profile) ==
    IF \E t \in DOMAIN trait_weights :
         calculate_prs(trait_weights, profile, t).outcome = "raised"
    THEN Raised(ZeroDivisionError, 0)
    ELSE Returned(all_scores(trait_weights, profile), 0)

----------------------------------------------------------------------------
(* The calculators as a state machine: callers register custom traits on an  *)
(* instance and ask an instance for all scores.                              *)

\* custom traits: two names, each with an empty table or a table of one
\* variant, and population parameters like the built-in ones
CustomNames == {"longevity", "resilience"}

CustomTables == {<<>>, <<W("rs2802292", 30)>>}

CustomParams == [mean |-> Zero, std |-> One]

AddCustomTrait ==
    /\ pc = "idle"
    /\ \E i \in 1..MaxCalculators, trait_name \in CustomNames,
          variant_weights \in CustomTables :
         /\ call' = [op |-> "add_custom_trait", instance |-> i,
                     trait |-> trait_name, variant_weights |-> variant_weights,
                     profile |-> NoTraits]
         /\ calculators' = add_custom_trait(calculators, i, trait_name,
                                            variant_weights, CustomParams)
    /\ ret' = Returned(NoResult, 0)
    /\ pc' = "done"
    /\ env' = NoEnv
    /\ UNCHANGED alpha

CalculateAllPrs ==
    /\ pc = "idle"
    /\ \E i \in 1..MaxCalculators,
          profile \in AnalysisProfiles \cup {[r \in {"rs2802292"} |-> <<"A", "A">>]} :
         /\ call' = [op |-> "calculate_all_prs", instance |-> i, trait |-> "",
                     variant_weights |-> <<>>, profile |-> profile]
         /\ ret' = calculate_all_prs(trait_weights_of(calculators, i), profile)
    /\ pc' = "done"
    /\ env' = NoEnv
    /\ UNCHANGED <<alpha, calculators>>

NextCalculator ==
    \/ AddCustomTrait
    \/ CalculateAllPrs
    \/ Return

SpecCalculator == Init /\ [][NextCalculator]_vars

----------------------------------------------------------------------------
(* Properties of the calculators, checked under SpecCalculator. *)

\* C30: after any sequence of add_custom_trait calls, calculate_all_prs
\* returns, without raising, exactly one score for every trait registered
\* on the instance, whatever the profile and the registered tables are, an
\* empty table included; and an add_custom_trait call changes neither the
\* class-level tables nor what is registered on another instance.
C30_EveryRegisteredTraitIsScored ==
    /\ [](call.op = "calculate_all_prs"
            => /\ ret.outcome = "returned"
               /\ DOMAIN ret.result
                    = DOMAIN trait_weights_of(calculators, call.instance))
    /\ [][/\ calculators'.class = calculators.class
          /\ \A j \in 1..MaxCalculators :
               (call'.op = "add_custom_trait" /\ j # call'.instance)
                 => calculators'.instances[j] = calculators.instances[j]]_vars

====
